---- MODULE Spec2Model ----
(***************************************************************************)
(* Model of the template cache (database.py: SQLite tables `templates`    *)
(* and `mapeamentos`, ChromaDB collection `templates`), of the span       *)
(* matcher mapear_variaveis_para_coordenadas (app.py and main.py), of the *)
(* exact fingerprint calcular_hash_documento (app.py, main.py), of the    *)
(* overlay gerar_pdf_com_substituicoes and of the two orchestrators (the  *)
(* analysis block of app.py, processar_documento of main.py with its      *)
(* in-memory templates_db).                                                *)
(*                                                                         *)
(* Python values: strings of the matcher and of the fingerprint are        *)
(* sequences of one-character strings; a dict is a function with a        *)
(* string domain; None is the record NoneV; a raised exception is the      *)
(* record Raise(name).  REAL columns keep numbers up to Python equality    *)
(* (10 == 10.0), so coordinates are integers.                              *)
(***************************************************************************)
EXTENDS Integers, Sequences, FiniteSets, TLC

VARIABLES
    tabelas,        \* the CREATE TABLE statements of criar_tabelas were executed
    templates,      \* rows of table templates
    mapeamentos,    \* rows of table mapeamentos, in rowid order
    seq,            \* sqlite_sequence: last AUTOINCREMENT id of each table
    disponivel,     \* CHROMADB_DISPONIVEL
    colecao,        \* ChromaDB collection "templates": id -> entry
    chamada,        \* the last call of the cache API, with what it returned
    palavras,       \* matcher input: the positioned words
    variaveis_llm,  \* matcher input: the candidate fields
    variante,       \* which matcher ran: "app" (app.py), "main" (main.py), "" (none yet)
    resultado,      \* what the matcher returned
    texto1, texto2, \* two document texts built from the same skeleton
    segmentos,      \* number of segments appended to texto1 and texto2
    hash1, hash2,   \* calcular_hash_documento of texto1 and of texto2, once computed
    memoria,        \* main.py: templates_db, the list objects and the caller's references
    sessao,         \* the last analysis run by an orchestrator, with its trace
    overlay,        \* the last call of gerar_pdf_com_substituicoes, with what it drew
    conc,           \* sessions running salvar_template concurrently, and the write lock
    arquivo,        \* the last file name given to conversor.py, with what the call did
    chave           \* a text and what normalizar_texto_para_embedding made of it

dbVars    == <<tabelas, templates, mapeamentos, seq>>
simVars   == <<disponivel, colecao>>
matchVars == <<palavras, variaveis_llm, variante, resultado>>
hashVars  == <<texto1, texto2, segmentos, hash1, hash2>>
novosVars == <<conc, arquivo, chave>>
extVars   == <<memoria, sessao, overlay, novosVars>>
vars      == <<dbVars, simVars, chamada, matchVars, hashVars, extVars>>

(***************************************************************************)
(* Bounds                                                                  *)
(***************************************************************************)
MaxLista         == 2   \* longest mapping list passed to salvar_template
MaxTemplateId    == 2   \* cap on sqlite_sequence of table templates
MaxMapeamentoId  == 4   \* cap on sqlite_sequence of table mapeamentos
MaxSegmentos     == 2   \* segments of the document texts given to the fingerprint
MaxPalavras      == 4   \* words of the page given to the matcher
MaxVariaveis     == 1   \* candidate fields given to the matcher
MaxValor         == 3   \* characters of a candidate's valor_original

(***************************************************************************)
(* Python values                                                           *)
(***************************************************************************)
NoneV        == [k |-> "None", v |-> <<>>]
ListaV(s)     == [k |-> "lista", v |-> s]
BoolV(b)      == [k |-> "bool", v |-> b]
IntV(n)       == [k |-> "int", v |-> n]
Raise(e)     == [k |-> "raise", v |-> e]

Null == "NULL"          \* SQL NULL / Python None for nome and descricao

\* dict.get(key, default)
Get(d, key, default) == IF key \in DOMAIN d THEN d[key] ELSE default

Max(a, b) == IF a >= b THEN a ELSE b

RECURSIVE SeqsUpTo(_, _)
\* all sequences over S of length 0..n
SeqsUpTo(S, n) ==
    IF n = 0 THEN {<<>>}
    ELSE LET shorter == SeqsUpTo(S, n - 1)
         IN  shorter \cup {Append(s, e) : s \in {t \in shorter : Len(t) = n - 1}, e \in S}

(***************************************************************************)
(* Inputs of the template store                                            *)
(***************************************************************************)
Hashes == {"h1", "h2"}

\* complete mapping dicts, as the matcher emits them
DictA == [tipo |-> "NOME", descricao |-> "Nome", texto_original |-> "Joao",
          x0 |-> 10, top |-> 20, x1 |-> 50, bottom |-> 30]
DictB == [tipo |-> "DATA", descricao |-> "Data", texto_original |-> "hoje",
          x0 |-> 100, top |-> 20, x1 |-> 150, bottom |-> 32]
ChavesMapeamento == {"tipo", "descricao", "texto_original", "x0", "top", "x1", "bottom"}
BemFormado(d)    == DOMAIN d = ChavesMapeamento
BemFormada(lst)  == \A i \in 1..Len(lst) : BemFormado(lst[i])

Dicts   == {DictA, DictB}
\* the mapping lists of the calls whose subject is the metadata
ListasMeta == {<<>>, <<DictA>>}
Listas  == SeqsUpTo(Dicts, MaxLista)
\* the optional arguments nome and descricao: both omitted, or both given
Metadados == {[nome |-> Null, descricao |-> Null],
              [nome |-> "Template", descricao |-> "Descricao"]}

(***************************************************************************)
(* SQLite: the statements of database.py                                   *)
(***************************************************************************)
\* get_conexao opens the connection without PRAGMA foreign_keys = ON, so
\* SQLite does not enforce FOREIGN KEY ... ON DELETE CASCADE
ForeignKeys == FALSE

\* SELECT id FROM templates WHERE hash = ?   (hash is UNIQUE)
SelectTemplate(doc_hash) == {t \in templates : t.hash = doc_hash}

\* mutant: the rows come back newest first (ORDER BY id DESC)
SelectMapeamentos_Invertido(template_id) ==
    LET rows == SelectSeq(mapeamentos, LAMBDA r : r.template_id = template_id)
        n    == Len(rows)
    IN  [i \in 1..n |->
            [tipo |-> rows[n + 1 - i].tipo, descricao |-> rows[n + 1 - i].descricao,
             texto_original |-> rows[n + 1 - i].texto_original,
             x0 |-> rows[n + 1 - i].x0, top |-> rows[n + 1 - i].top,
             x1 |-> rows[n + 1 - i].x1, bottom |-> rows[n + 1 - i].bottom]]

\* SELECT tipo, descricao, texto_original, x0, top, x1, bottom
\* FROM mapeamentos WHERE template_id = ?   and the dicts built from the rows
SelectMapeamentos(template_id) ==
    LET rows == SelectSeq(mapeamentos, LAMBDA r : r.template_id = template_id)
    IN  [i \in 1..Len(rows) |->
            [tipo |-> rows[i].tipo, descricao |-> rows[i].descricao,
             texto_original |-> rows[i].texto_original,
             x0 |-> rows[i].x0, top |-> rows[i].top,
             x1 |-> rows[i].x1, bottom |-> rows[i].bottom]]

\* mutant: an empty mapping list is reported as "not found"
RetCarregar_VazioNone(doc_hash) ==
    LET resultado_ == SelectTemplate(doc_hash)
    IN  IF resultado_ = {} THEN NoneV
        ELSE IF SelectMapeamentos((CHOOSE t \in resultado_ : TRUE).id) = <<>> THEN NoneV
        ELSE ListaV(SelectMapeamentos((CHOOSE t \in resultado_ : TRUE).id))

\* what carregar_template returns in the current store
RetCarregar(doc_hash) ==
    LET resultado_ == SelectTemplate(doc_hash)
    IN  IF resultado_ = {} THEN NoneV
        ELSE ListaV(SelectMapeamentos((CHOOSE t \in resultado_ : TRUE).id))

\* what template_existe returns: SELECT 1 FROM templates WHERE hash = ?
RetExiste(doc_hash) == \E t \in templates : t.hash = doc_hash

\* mutant: the rows of the child table are counted
RetContar_Mapeamentos == Len(mapeamentos)

\* what contar_templates returns: SELECT COUNT(*) FROM templates
RetContar == Cardinality(templates)

\* the row inserted for one mapping dict
LinhaMapeamento(id, template_id, d) ==
    [id |-> id, template_id |-> template_id,
     tipo |-> Get(d, "tipo", ""),
     descricao |-> Get(d, "descricao", ""),
     texto_original |-> Get(d, "texto_original", ""),
     x0 |-> Get(d, "x0", 0), top |-> Get(d, "top", 0),
     x1 |-> Get(d, "x1", 0), bottom |-> Get(d, "bottom", 0)]

\* the for loop of salvar_template: one INSERT INTO mapeamentos per dict
InsereMapeamentos(template_id, maps) ==
    [i \in 1..Len(maps) |-> LinhaMapeamento(seq.mapeamentos + i, template_id, maps[i])]

\* mutant: the column always takes the new value, NULL included
Coalesce_Sempre(novo, antigo) == novo

\* COALESCE(?, coluna)
Coalesce(novo, antigo) == IF novo # Null THEN novo ELSE antigo

\* mutant: the old rows of the template are kept
DeleteMapeamentos_Nada(template_id) == mapeamentos

\* DELETE FROM mapeamentos WHERE template_id = ?
DeleteMapeamentos(template_id) ==
    SelectSeq(mapeamentos, LAMBDA r : r.template_id # template_id)

\* mutant: the id column is a plain INTEGER PRIMARY KEY, so a new row gets
\* the largest id in the table plus one and the id of a deleted row returns
IdTemplate_Reusa(doc_hash) ==
    IF SelectTemplate(doc_hash) # {}
    THEN (CHOOSE t \in SelectTemplate(doc_hash) : TRUE).id
    ELSE IF templates = {} THEN 1
    ELSE (CHOOSE t \in templates : \A u \in templates : t.id >= u.id).id + 1

\* the id of the row of doc_hash after salvar_template: the id of the row
\* that exists, or cursor.lastrowid of the INSERT (id is AUTOINCREMENT: the
\* ids of deleted rows are not given again)
IdTemplate(doc_hash) ==
    IF SelectTemplate(doc_hash) # {}
    THEN (CHOOSE t \in SelectTemplate(doc_hash) : TRUE).id
    ELSE seq.templates + 1

\* the statements of salvar_template up to conn.commit(): what they do to
\* the database
SalvarEfeito(doc_hash, maps, nome, descricao) ==
    LET resultado_ == SelectTemplate(doc_hash)
        existe     == resultado_ # {}
        antigo     == CHOOSE t \in resultado_ : TRUE
        template_id == IdTemplate(doc_hash)
    IN  /\ existe \/ seq.templates < MaxTemplateId
        /\ seq.mapeamentos + Len(maps) <= MaxMapeamentoId
        /\ tabelas' = TRUE
        /\ templates' =
             IF existe
             THEN (templates \ {antigo}) \cup
                  {[antigo EXCEPT !.nome = Coalesce(nome, antigo.nome),
                                  !.descricao = Coalesce(descricao, antigo.descricao),
                                  !.num_campos = Len(maps)]}
             ELSE templates \cup
                  {[id |-> template_id, hash |-> doc_hash, nome |-> nome,
                    descricao |-> descricao, num_campos |-> Len(maps)]}
        /\ mapeamentos' =
             (IF existe THEN DeleteMapeamentos(template_id) ELSE mapeamentos)
             \o InsereMapeamentos(template_id, maps)
        /\ seq' = [templates |-> IF existe THEN seq.templates ELSE template_id,
                   mapeamentos |-> seq.mapeamentos + Len(maps)]

\* salvar_template(doc_hash, mapeamentos, nome, descricao), called by a client
salvar_template(doc_hash, maps, nome, descricao) ==
    /\ SalvarEfeito(doc_hash, maps, nome, descricao)
    /\ chamada' = [op |-> "salvar_template", hash |-> doc_hash, maps |-> maps,
                   nome |-> nome, descricao |-> descricao,
                   existia |-> RetExiste(doc_hash), antes |-> RetCarregar(doc_hash),
                   linha |-> IF RetExiste(doc_hash)
                             THEN CHOOSE t \in SelectTemplate(doc_hash) : TRUE
                             ELSE NoneV,
                   retorno |-> IntV(IdTemplate(doc_hash))]
    /\ UNCHANGED <<simVars, matchVars, hashVars, extVars>>

\* carregar_template(doc_hash)
carregar_template(doc_hash) ==
    /\ tabelas' = TRUE
    /\ chamada' = [op |-> "carregar_template", hash |-> doc_hash, maps |-> <<>>,
                   existia |-> RetExiste(doc_hash), antes |-> RetCarregar(doc_hash),
                   retorno |-> RetCarregar(doc_hash)]
    /\ UNCHANGED <<templates, mapeamentos, seq, simVars, matchVars, hashVars, extVars>>

\* template_existe(doc_hash)
template_existe(doc_hash) ==
    /\ tabelas' = TRUE
    /\ chamada' = [op |-> "template_existe", hash |-> doc_hash, maps |-> <<>>,
                   existia |-> RetExiste(doc_hash), antes |-> RetCarregar(doc_hash),
                   retorno |-> BoolV(RetExiste(doc_hash))]
    /\ UNCHANGED <<templates, mapeamentos, seq, simVars, matchVars, hashVars, extVars>>

\* contar_templates()
contar_templates ==
    /\ tabelas' = TRUE
    /\ chamada' = [op |-> "contar_templates", hash |-> "", maps |-> <<>>,
                   existia |-> FALSE, antes |-> NoneV,
                   retorno |-> IntV(RetContar)]
    /\ UNCHANGED <<templates, mapeamentos, seq, simVars, matchVars, hashVars, extVars>>

\* deletar_template(doc_hash): no criar_tabelas() before the DELETE, so on a
\* database file without tables sqlite3 raises OperationalError
deletar_template(doc_hash) ==
    LET apagadas == SelectTemplate(doc_hash)
        ids      == {t.id : t \in apagadas}
    IN  /\ tabelas' = tabelas
        /\ templates' = IF tabelas THEN templates \ apagadas ELSE templates
        /\ mapeamentos' =
             IF tabelas /\ ForeignKeys
             THEN SelectSeq(mapeamentos, LAMBDA r : r.template_id \notin ids)
             ELSE mapeamentos
        /\ chamada' = [op |-> "deletar_template", hash |-> doc_hash, maps |-> <<>>,
                       existia |-> RetExiste(doc_hash), antes |-> RetCarregar(doc_hash),
                       retorno |-> IF tabelas THEN BoolV(apagadas # {})
                                   ELSE Raise("OperationalError")]
        /\ UNCHANGED <<seq, simVars, matchVars, hashVars, extVars>>

(***************************************************************************)
(* Specification of the template store                                     *)
(***************************************************************************)
SemChamada == [op |-> "", hash |-> "", maps |-> <<>>, existia |-> FALSE,
               antes |-> NoneV, retorno |-> NoneV]

InitDb ==
    /\ tabelas = FALSE
    /\ templates = {}
    /\ mapeamentos = <<>>
    /\ seq = [templates |-> 0, mapeamentos |-> 0]
    /\ chamada = SemChamada

SemSim   == disponivel = FALSE /\ colecao = {}
SemMatch == palavras = <<>> /\ variaveis_llm = <<>> /\ variante = "" /\ resultado = <<>>
SemHash  == texto1 = <<>> /\ texto2 = <<>> /\ segmentos = 0 /\ hash1 = NoneV /\ hash2 = NoneV

\* templates_db = {} at import of main.py; no list object, no reference yet
SemMemoria == memoria = [db |-> <<>>, heap |-> <<>>, maos |-> {}]
SemSessao  == sessao = [variante |-> ""]
SemOverlay == overlay = [variante |-> ""]
\* no session has started a save; no file name was given to the converter
SemConc    == conc = [trava |-> 0]
SemArquivo == arquivo = [op |-> ""]
SemChave   == chave = [texto |-> <<>>, retorno |-> NoneV]
SemNovos   == SemConc /\ SemArquivo /\ SemChave
SemExt     == SemMemoria /\ SemSessao /\ SemOverlay /\ SemNovos

Init == InitDb /\ SemSim /\ SemMatch /\ SemHash /\ SemExt

Next ==
    \/ \E h \in Hashes, m \in Listas, md \in Metadados :
          salvar_template(h, m, md.nome, md.descricao)
    \/ \E h \in Hashes : carregar_template(h)
    \/ \E h \in Hashes : template_existe(h)
    \/ contar_templates
    \/ \E h \in Hashes : deletar_template(h)

Spec == Init /\ [][Next]_vars

(***************************************************************************)
(* Claims about the template store                                         *)
(***************************************************************************)
Salvou == chamada.op = "salvar_template"

\* C1 - cache overwrite law: after salvar_template(fp, M2) on a fingerprint
\* that already had a template (saved with M1), carregar_template(fp)
\* returns exactly M2: nothing of M1 remains, the lists are not merged.
C1_CacheOverwrite ==
    (Salvou /\ chamada.existia) =>
        /\ RetCarregar(chamada.hash).k = "lista"
        /\ RetCarregar(chamada.hash).v = chamada.maps

\* an overwrite whose old and new lists are non-empty and share no mapping
C1_Witness ==
    /\ Salvou /\ chamada.existia
    /\ chamada.antes.k = "lista"
    /\ chamada.antes.v # <<>> /\ chamada.maps # <<>>
    /\ \A i \in 1..Len(chamada.antes.v), j \in 1..Len(chamada.maps) :
            chamada.antes.v[i] # chamada.maps[j]
    /\ RetCarregar(chamada.hash).v = chamada.maps

\* C2 - round trip and upsert idempotence: after salvar_template(fp, M) with
\* well-formed M, executed once (no template before) or twice in a row (the
\* template already held M), carregar_template(fp) returns M: same length,
\* same order, same fields, no duplicated rows.
C2_RoundTrip ==
    (/\ Salvou /\ BemFormada(chamada.maps)
     /\ (~chamada.existia \/ (chamada.antes.k = "lista" /\ chamada.antes.v = chamada.maps)))
    => /\ RetCarregar(chamada.hash).k = "lista"
       /\ Len(RetCarregar(chamada.hash).v) = Len(chamada.maps)
       /\ \A i \in 1..Len(chamada.maps) :
             \A c \in ChavesMapeamento :
                RetCarregar(chamada.hash).v[i][c] = chamada.maps[i][c]

\* the second of two identical saves of a list of two different mappings
C2_Witness ==
    /\ Salvou /\ chamada.existia
    /\ chamada.antes.k = "lista" /\ chamada.antes.v = chamada.maps
    /\ Len(chamada.maps) = 2 /\ chamada.maps[1] # chamada.maps[2]
    /\ RetCarregar(chamada.hash).v = chamada.maps

\* C9 - carregar_template returns None exactly when template_existe is
\* false, and after salvar_template(fp, []) it returns [] and not None.
C9_LoadNoneIffNotExists ==
    /\ \A h \in Hashes : (RetCarregar(h).k = "None") <=> ~RetExiste(h)
    /\ (chamada.op = "carregar_template") =>
           ((chamada.retorno.k = "None") <=> ~RetExiste(chamada.hash))
    /\ (Salvou /\ chamada.maps = <<>>) =>
           /\ RetCarregar(chamada.hash).k = "lista"
           /\ RetCarregar(chamada.hash).v = <<>>

\* a load that returned the empty list for a stored template
C9_Witness ==
    /\ chamada.op = "carregar_template"
    /\ chamada.retorno.k = "lista" /\ chamada.retorno.v = <<>>
    /\ RetExiste(chamada.hash)

\* C10 - deletar_template returns True iff a template for fp was stored
\* immediately before the call and False, without raising, otherwise, in
\* every store state; afterwards template_existe(fp) is false and
\* carregar_template(fp) is None.
C10_DeleteContract ==
    (chamada.op = "deletar_template") =>
        /\ chamada.retorno.k = "bool"
        /\ chamada.retorno.v = chamada.existia
        /\ ~RetExiste(chamada.hash)
        /\ RetCarregar(chamada.hash).k = "None"

\* the fingerprints for which template_existe is true
Existentes == {h \in Hashes : RetExiste(h)}

\* what a step of salvar_template or deletar_template does to the count
PassoContagem ==
    /\ (chamada'.op = "salvar_template") =>
           RetContar' = RetContar + (IF chamada'.existia THEN 0 ELSE 1)
    /\ (chamada'.op = "deletar_template" /\ chamada'.existia) =>
           RetContar' = RetContar - 1

\* C11 - contar_templates equals the number of distinct fingerprints for
\* which template_existe is true, after any sequence of saves and deletes:
\* a save of a new fingerprint raises the count by one, a save of a stored
\* fingerprint leaves it unchanged, a delete of a stored fingerprint lowers
\* it by one.
C11_CountMatchesExists ==
    /\ [](/\ RetContar = Cardinality(Existentes)
          /\ (chamada.op = "contar_templates") =>
                 chamada.retorno = IntV(Cardinality(Existentes)))
    /\ [][PassoContagem]_vars

\* two fingerprints were saved, one was deleted, and the count is one
C11_Witness ==
    /\ chamada.op = "deletar_template"
    /\ chamada.existia /\ chamada.retorno = BoolV(TRUE)
    /\ seq.templates = 2
    /\ RetContar = 1 /\ Cardinality(Existentes) = 1

\* C12 - cascade delete: in every reachable store state every row of table
\* mapeamentos references a row of table templates that exists; deleting a
\* template removes its child rows.
C12_NoOrphans ==
    \A i \in 1..Len(mapeamentos) :
        \E t \in templates : t.id = mapeamentos[i].template_id

(***************************************************************************)
(* The template store called with mapping dicts that lack keys             *)
(***************************************************************************)
\* a mapping dict without coordinates, as a caller of the API may pass it
DictSemCoordenadas == [tipo |-> "CAMPO"]
DictsCaixa  == {DictA, DictSemCoordenadas}
ListasCaixa == SeqsUpTo(DictsCaixa, MaxLista)

NextCaixa ==
    \/ \E h \in Hashes, m \in ListasCaixa : salvar_template(h, m, Null, Null)
    \/ \E h \in Hashes : carregar_template(h)
    \/ \E h \in Hashes : deletar_template(h)

SpecCaixa == Init /\ [][NextCaixa]_vars

\* x1 > x0 and bottom > top
CaixaValida(m) == m.x1 > m.x0 /\ m.bottom > m.top

\* C13 - box invariant: every mapping emitted by the matcher and every
\* mapping held in a stored template has x1 > x0 and bottom > top; a mapping
\* whose box has no width or no height is dropped and never stored.
C13_BoxInvariant ==
    /\ \A i \in 1..Len(resultado) : CaixaValida(resultado[i])
    /\ \A h \in Hashes :
          (RetCarregar(h).k = "lista") =>
              \A i \in 1..Len(RetCarregar(h).v) : CaixaValida(RetCarregar(h).v[i])

(***************************************************************************)
(* The template store called with and without nome and descricao           *)
(***************************************************************************)
Nomes      == {Null, "Template", "Outro"}
Descricoes == {Null, "Descricao", "Outra"}

\* one fingerprint: the metadata of a template depend on no other template
HashesMeta == {"h1"}

NextMeta ==
    \/ \E h \in HashesMeta, m \in ListasMeta, n \in Nomes, d \in Descricoes :
          salvar_template(h, m, n, d)
    \/ \E h \in HashesMeta : deletar_template(h)

SpecMeta == Init /\ [][NextMeta]_vars

\* the row of table templates of the last call's fingerprint
LinhaAtual == CHOOSE t \in SelectTemplate(chamada.hash) : TRUE

\* C20 - COALESCE metadata: when salvar_template is called for a
\* fingerprint that already has a template, nome and descricao each take
\* the new value where it is not None and keep the stored value where it is
\* None, while the mappings and num_campos are always replaced.
C20_Coalesce ==
    (Salvou /\ chamada.existia) =>
        /\ SelectTemplate(chamada.hash) # {}
        /\ LinhaAtual.id = chamada.linha.id
        /\ LinhaAtual.nome =
              (IF chamada.nome # Null THEN chamada.nome ELSE chamada.linha.nome)
        /\ LinhaAtual.descricao =
              (IF chamada.descricao # Null THEN chamada.descricao
               ELSE chamada.linha.descricao)
        /\ LinhaAtual.num_campos = Len(chamada.maps)
        /\ RetCarregar(chamada.hash) = ListaV(chamada.maps)

\* an overwrite without nome and with a new descricao, of a template that
\* had both: nome is kept, descricao and the mappings are replaced
C20_Witness ==
    /\ Salvou /\ chamada.existia
    /\ chamada.nome = Null /\ chamada.descricao = "Outra"
    /\ chamada.linha.nome = "Template" /\ chamada.linha.descricao = "Descricao"
    /\ chamada.antes.k = "lista" /\ chamada.antes.v # chamada.maps
    /\ LinhaAtual.nome = "Template" /\ LinhaAtual.descricao = "Outra"
    /\ LinhaAtual.num_campos = Len(chamada.maps)

(***************************************************************************)
(* Regular expressions of Python's re module, for patterns that are a      *)
(* sequence of quantified character classes.  A pattern is a sequence of   *)
(* atoms [cls, min, max]; the quantifiers are greedy and backtrack.        *)
(***************************************************************************)
Inf == -1     \* no upper limit on a repetition (+ and *)

Digitos == {"0", "1", "2", "3", "4", "5", "6", "7", "8", "9"}     \* \d
Espacos == {" ", "\t", "\n"}                                       \* \s

Atom(cls, min, max) == [cls |-> cls, min |-> min, max |-> max]

RECURSIVE Run(_, _, _, _)
\* how many consecutive characters of s from position i are in cls, at most max
Run(cls, s, i, max) ==
    IF max = 0 \/ i > Len(s) \/ s[i] \notin cls THEN 0
    ELSE 1 + Run(cls, s, i + 1, IF max = Inf THEN Inf ELSE max - 1)

RECURSIVE MatchAt(_, _, _, _), TryCount(_, _, _, _, _)
\* atom k takes n characters, then fewer, until the rest of the pattern matches
TryCount(pat, k, s, i, n) ==
    IF n < pat[k].min THEN 0
    ELSE LET e == MatchAt(pat, k + 1, s, i + n)
         IN  IF e # 0 THEN e ELSE TryCount(pat, k, s, i, n - 1)

\* the position after the match of atoms k.. of pat at position i of s; 0: no match
MatchAt(pat, k, s, i) ==
    IF k > Len(pat) THEN i
    ELSE TryCount(pat, k, s, i, Run(pat[k].cls, s, i, pat[k].max))

RECURSIVE SubFrom(_, _, _, _)
SubFrom(pat, repl, s, i) ==
    IF i > Len(s) THEN <<>>
    ELSE LET e == MatchAt(pat, 1, s, i)
         IN  IF e > i THEN repl \o SubFrom(pat, repl, s, e)
             ELSE <<s[i]>> \o SubFrom(pat, repl, s, i + 1)

\* re.sub(pat, repl, s): leftmost non-overlapping matches, left to right
re_sub(pat, repl, s) == SubFrom(pat, repl, s, 1)

(***************************************************************************)
(* Exact fingerprint: calcular_hash_documento                              *)
(***************************************************************************)
\* r'\d+'
PadraoNumero == <<Atom(Digitos, 1, Inf)>>

\* r'R\$\s*[\d.,]+'
PadraoValor == <<Atom({"R"}, 1, 1), Atom({"$"}, 1, 1), Atom(Espacos, 0, Inf),
                 Atom(Digitos \cup {".", ","}, 1, Inf)>>

\* texto_normalizado: digits are removed first, then the currency amounts
NormalizaHash(texto) == re_sub(PadraoValor, <<>>, re_sub(PadraoNumero, <<>>, texto))

\* hashlib.md5(t.encode()).hexdigest()[:16]: the digest is represented by its
\* input; two different texts of the model have different digests
Md5Hex16(t) == [k |-> "md5", v |-> t]

\* calcular_hash_documento, from the extracted text on
HashDocumento(texto_completo) == Md5Hex16(NormalizaHash(texto_completo))

\* Segments of a document skeleton.  The fixed text is the same in both
\* documents; a number and a currency amount may differ between them.
Literais == {"a", " "}
Numeros  == {<<"1">>, <<"2">>, <<"1", "2">>}
\* digits with optional grouping and decimal separators
Quantias == {<<"1">>, <<"1", "2">>, <<"1", ",", "2">>, <<"1", ".", "2">>}
Simbolos == {<<"R", "$">>, <<"R", "$", " ">>}

AnexaLiteral(c) ==
    /\ segmentos < MaxSegmentos
    /\ hash1.k = "None"
    /\ texto1' = Append(texto1, c)
    /\ texto2' = Append(texto2, c)
    /\ segmentos' = segmentos + 1
    /\ UNCHANGED <<hash1, hash2, dbVars, simVars, chamada, matchVars, extVars>>

AnexaNumero(n1, n2) ==
    /\ segmentos < MaxSegmentos
    /\ hash1.k = "None"
    /\ texto1' = texto1 \o n1
    /\ texto2' = texto2 \o n2
    /\ segmentos' = segmentos + 1
    /\ UNCHANGED <<hash1, hash2, dbVars, simVars, chamada, matchVars, extVars>>

AnexaValor(simbolo, q1, q2) ==
    /\ segmentos < MaxSegmentos
    /\ hash1.k = "None"
    /\ texto1' = texto1 \o simbolo \o q1
    /\ texto2' = texto2 \o simbolo \o q2
    /\ segmentos' = segmentos + 1
    /\ UNCHANGED <<hash1, hash2, dbVars, simVars, chamada, matchVars, extVars>>

\* calcular_hash_documento on each of the two documents
calcular_hash_documento ==
    /\ hash1.k = "None"
    /\ hash1' = HashDocumento(texto1)
    /\ hash2' = HashDocumento(texto2)
    /\ UNCHANGED <<texto1, texto2, segmentos, dbVars, simVars, chamada, matchVars, extVars>>

SemDb == InitDb

InitHash == SemDb /\ SemSim /\ SemMatch /\ SemHash /\ SemExt

NextHash ==
    \/ \E c \in Literais : AnexaLiteral(c)
    \/ \E n1 \in Numeros, n2 \in Numeros : AnexaNumero(n1, n2)
    \/ \E sb \in Simbolos, q1 \in Quantias, q2 \in Quantias : AnexaValor(sb, q1, q2)
    \/ calcular_hash_documento

SpecHash == InitHash /\ [][NextHash]_vars

\* C6 - digit-insensitivity of the exact fingerprint: two texts that differ
\* only in their digit sequences and currency amounts have the same
\* calcular_hash_documento.
C6_DigitInsensitive ==
    (hash1.k = "md5") => hash1 = hash2

(***************************************************************************)
(* Span matcher: mapear_variaveis_para_coordenadas (app.py and main.py)    *)
(***************************************************************************)
RECURSIVE SplitFrom(_, _, _)
SplitFrom(s, i, atual) ==
    IF i > Len(s) THEN (IF atual = <<>> THEN <<>> ELSE <<atual>>)
    ELSE IF s[i] \in Espacos
         THEN (IF atual = <<>> THEN <<>> ELSE <<atual>>) \o SplitFrom(s, i + 1, <<>>)
         ELSE SplitFrom(s, i + 1, Append(atual, s[i]))

\* str.split(): the maximal runs of non-whitespace characters
Split(s) == SplitFrom(s, 1, <<>>)

\* a in b, for strings: a occurs in b as a substring
In(a, b) == \E i \in 0..(Len(b) - Len(a)) : SubSeq(b, i + 1, i + Len(a)) = a

RECURSIVE Estende(_, _, _, _, _)
\* the inner loop over palavras_busca[1:]: word i + j - 1 must equal token j;
\* each matching word moves x1 and raises bottom; the first mismatch, or the
\* end of the word list, stops the loop with match = False
Estende(pals, palavras_busca, i, j, coords) ==
    IF j > Len(palavras_busca) THEN [match |-> TRUE, coords |-> coords]
    ELSE IF i + j - 1 <= Len(pals) /\ pals[i + j - 1].text = palavras_busca[j]
         THEN Estende(pals, palavras_busca, i, j + 1,
                      [coords EXCEPT !.x1 = pals[i + j - 1].x1,
                                     !.bottom = Max(coords.bottom, pals[i + j - 1].bottom)])
         ELSE [match |-> FALSE, coords |-> coords]

\* if match or len(palavras_busca) == 1
Aceita(match, palavras_busca) == match \/ Len(palavras_busca) = 1

RECURSIVE Procura_Ultimo(_, _, _)
\* mutant: the scan does not stop at the first accepted word, the last one wins
Procura_Ultimo(pals, palavras_busca, i) ==
    IF i > Len(pals) THEN [encontrado |-> FALSE]
    ELSE LET resto == Procura_Ultimo(pals, palavras_busca, i + 1)
             r == Estende(pals, palavras_busca, i, 2,
                          [x0 |-> pals[i].x0, top |-> pals[i].top,
                           x1 |-> pals[i].x1, bottom |-> pals[i].bottom])
         IN  IF resto.encontrado THEN resto
             ELSE IF pals[i].text = palavras_busca[1] /\ Aceita(r.match, palavras_busca)
                  THEN [encontrado |-> TRUE, coords |-> r.coords]
                  ELSE resto

RECURSIVE Procura(_, _, _)
\* the loop "for i, palavra in enumerate(palavras)" from word i on: the first
\* word equal to the first token whose extension is accepted ends the scan
Procura(pals, palavras_busca, i) ==
    IF i > Len(pals) THEN [encontrado |-> FALSE]
    ELSE IF pals[i].text = palavras_busca[1]
         THEN LET r == Estende(pals, palavras_busca, i, 2,
                               [x0 |-> pals[i].x0, top |-> pals[i].top,
                                x1 |-> pals[i].x1, bottom |-> pals[i].bottom])
              IN  IF Aceita(r.match, palavras_busca)
                  THEN [encontrado |-> TRUE, coords |-> r.coords]
                  ELSE Procura(pals, palavras_busca, i + 1)
         ELSE Procura(pals, palavras_busca, i + 1)

\* mutant: the partial search also runs for candidates of several tokens
TentaParcial_Sempre(encontrado, palavras_busca) == ~encontrado

\* if not encontrado and len(palavras_busca) == 1
TentaParcial(encontrado, palavras_busca) == ~encontrado /\ Len(palavras_busca) = 1

RECURSIVE BuscaParcial(_, _, _)
\* the partial search of app.py: the first word that contains the token or
\* is contained in it
BuscaParcial(pals, token, i) ==
    IF i > Len(pals) THEN [encontrado |-> FALSE]
    ELSE IF In(token, pals[i].text) \/ In(pals[i].text, token)
         THEN [encontrado |-> TRUE,
               coords |-> [x0 |-> pals[i].x0, top |-> pals[i].top,
                           x1 |-> pals[i].x1, bottom |-> pals[i].bottom]]
         ELSE BuscaParcial(pals, token, i + 1)

\* mutant: the appended dict does not take the tipo of the candidate
Mapeamento_SemTipo(variavel, coords) ==
    [tipo |-> "CAMPO_DESCONHECIDO",
     descricao |-> Get(variavel, "descricao", Get(variavel, "tipo", "CAMPO_DESCONHECIDO")),
     texto_original |-> Get(variavel, "valor_original", <<>>),
     x0 |-> coords.x0, top |-> coords.top, x1 |-> coords.x1, bottom |-> coords.bottom]

\* the dict appended to mapeamentos
Mapeamento(variavel, coords) ==
    [tipo |-> Get(variavel, "tipo", "CAMPO_DESCONHECIDO"),
     descricao |-> Get(variavel, "descricao", Get(variavel, "tipo", "CAMPO_DESCONHECIDO")),
     texto_original |-> Get(variavel, "valor_original", <<>>),
     x0 |-> coords.x0, top |-> coords.top, x1 |-> coords.x1, bottom |-> coords.bottom]

\* one iteration of "for variavel in variaveis_llm": what it appends
\* (parcial: the variant has the partial search, as app.py has)
MapeiaVariavel(variavel, pals, parcial) ==
    LET palavras_busca == Split(Get(variavel, "valor_original", <<>>))
        exato == Procura(pals, palavras_busca, 1)
        fraco == BuscaParcial(pals, palavras_busca[1], 1)
    IN  IF palavras_busca = <<>> THEN <<>>
        ELSE IF exato.encontrado THEN <<Mapeamento(variavel, exato.coords)>>
        ELSE IF parcial /\ TentaParcial(exato.encontrado, palavras_busca) /\ fraco.encontrado
             THEN <<Mapeamento(variavel, fraco.coords)>>
        ELSE <<>>

RECURSIVE MapeiaTodas(_, _, _, _)
MapeiaTodas(variaveis, pals, parcial, k) ==
    IF k > Len(variaveis) THEN <<>>
    ELSE MapeiaVariavel(variaveis[k], pals, parcial) \o MapeiaTodas(variaveis, pals, parcial, k + 1)

\* mapear_variaveis_para_coordenadas of app.py
MapearApp(variaveis, pals) == MapeiaTodas(variaveis, pals, TRUE, 1)

\* mapear_variaveis_para_coordenadas of main.py: no partial search, an
\* unmatched candidate is only reported with a warning
MapearMain(variaveis, pals) == MapeiaTodas(variaveis, pals, FALSE, 1)

(***************************************************************************)
(* Inputs of the matcher                                                   *)
(***************************************************************************)
TextosPalavra == {<<"a">>, <<"b">>, <<"a", "b">>}
CaracteresValor == {"a", "b", " "}
Valores == SeqsUpTo(CaracteresValor, MaxValor)

\* box of the word with the given text at position i of the page; the
\* height of a word depends on its text
Altura(text) == IF text = <<"a">> THEN 10 ELSE IF text = <<"b">> THEN 13 ELSE 12
Palavra(i, text) ==
    [text |-> text, x0 |-> 10 * i, top |-> 100 + i,
     x1 |-> 10 * i + 4 * Len(text), bottom |-> 100 + i + Altura(text)]

ListasPalavras ==
    {[i \in 1..Len(ts) |-> Palavra(i, ts[i])] : ts \in SeqsUpTo(TextosPalavra, MaxPalavras)}

\* the k-th candidate: tipo is unique within the list
Tipos == <<"CAMPO_1", "CAMPO_2", "CAMPO_3", "CAMPO_4">>
Variavel(k, valor) ==
    [valor_original |-> valor, tipo |-> Tipos[k], descricao |-> <<"Campo", k>>]

ListasVariaveis ==
    {[k \in 1..Len(vs) |-> Variavel(k, vs[k])] : vs \in SeqsUpTo(Valores, MaxVariaveis)}

InitMatch ==
    /\ SemDb /\ SemSim /\ SemHash /\ SemExt
    /\ palavras \in ListasPalavras
    /\ variaveis_llm \in ListasVariaveis
    /\ variante = ""
    /\ resultado = <<>>

\* a call of app.mapear_variaveis_para_coordenadas
mapear_app ==
    /\ variante = ""
    /\ variante' = "app"
    /\ resultado' = MapearApp(variaveis_llm, palavras)
    /\ UNCHANGED <<palavras, variaveis_llm, dbVars, simVars, chamada, hashVars, extVars>>

\* a call of main.mapear_variaveis_para_coordenadas
mapear_main ==
    /\ variante = ""
    /\ variante' = "main"
    /\ resultado' = MapearMain(variaveis_llm, palavras)
    /\ UNCHANGED <<palavras, variaveis_llm, dbVars, simVars, chamada, hashVars, extVars>>

NextMatch == mapear_app \/ mapear_main

SpecMatch == InitMatch /\ [][NextMatch]_vars

(***************************************************************************)
(* Claims about the matcher                                                *)
(***************************************************************************)
Mapeou == variante # ""

\* tokens of the k-th candidate
Tokens(k) == Split(variaveis_llm[k].valor_original)

\* the positions at which all tokens of the k-th candidate occur contiguously
Ocorrencias(k) ==
    {i \in 1..Len(palavras) :
        \A t \in 1..Len(Tokens(k)) :
            i + t - 1 <= Len(palavras) /\ palavras[i + t - 1].text = Tokens(k)[t]}

\* the FieldMappings produced for the k-th candidate
Resolvidos(k) == SelectSeq(resultado, LAMBDA m : m.tipo = variaveis_llm[k].tipo)

Primeira(k) == CHOOSE i \in Ocorrencias(k) : \A o \in Ocorrencias(k) : i <= o

\* the box of the words i .. i + n - 1
CaixaEm(i, n, m) ==
    /\ m.x0 = palavras[i].x0
    /\ m.top = palavras[i].top
    /\ m.x1 = palavras[i + n - 1].x1
    /\ \E t \in 0..(n - 1) : m.bottom = palavras[i + t].bottom
    /\ \A t \in 0..(n - 1) : m.bottom >= palavras[i + t].bottom

\* C3 - first-match law: a candidate whose complete token sequence occurs
\* contiguously at two or more positions of the word list is mapped to the
\* box of the earliest occurrence, never to a later one.
C3_FirstMatch ==
    Mapeou =>
      \A k \in 1..Len(variaveis_llm) :
        (Tokens(k) # <<>> /\ Cardinality(Ocorrencias(k)) >= 2) =>
            /\ Len(Resolvidos(k)) = 1
            /\ CaixaEm(Primeira(k), Len(Tokens(k)), Resolvidos(k)[1])
            /\ \A o \in Ocorrencias(k) \ {Primeira(k)} :
                  ~CaixaEm(o, Len(Tokens(k)), Resolvidos(k)[1])

\* a two-token candidate with two occurrences, resolved
C3_Witness ==
    /\ Mapeou
    /\ \E k \in 1..Len(variaveis_llm) :
          /\ Len(Tokens(k)) = 2
          /\ Cardinality(Ocorrencias(k)) >= 2
          /\ Len(Resolvidos(k)) = 1
          /\ Resolvidos(k)[1].x0 = palavras[Primeira(k)].x0

\* C4 - no fuzzy matching for multi-token spans: a candidate of two or more
\* tokens is resolved only if at some index every token equals the text of
\* the consecutive words; otherwise it yields no FieldMapping, and the call
\* still returns.
C4_NoFuzzyMultiToken ==
    Mapeou =>
      \A k \in 1..Len(variaveis_llm) :
        (Len(Tokens(k)) >= 2) =>
            /\ (Ocorrencias(k) = {}) => Resolvidos(k) = <<>>
            /\ (Ocorrencias(k) # {}) => Len(Resolvidos(k)) = 1

\* "Jon Smith" against "John", "Smith": the first token is only a substring
\* of a word, the second token is a word, and nothing is emitted
C4_Witness ==
    /\ variante = "app"
    /\ \E k \in 1..Len(variaveis_llm) :
          /\ Len(Tokens(k)) = 2
          /\ Ocorrencias(k) = {}
          /\ \E i \in 1..Len(palavras) :
                /\ In(Tokens(k)[1], palavras[i].text)
                /\ i < Len(palavras)
                /\ palavras[i + 1].text = Tokens(k)[2]
          /\ Resolvidos(k) = <<>>

\* the words that contain the token or are contained in it
Qualificadas(token) ==
    {i \in 1..Len(palavras) : In(token, palavras[i].text) \/ In(palavras[i].text, token)}

\* C5 - matcher degeneracy: a single-token candidate that no word equals,
\* while some word contains the token or is contained in it, yields exactly
\* one FieldMapping, taken from the box of the first such word.
C5_Degeneracy ==
    Mapeou =>
      \A k \in 1..Len(variaveis_llm) :
        (/\ Len(Tokens(k)) = 1
         /\ Ocorrencias(k) = {}
         /\ Qualificadas(Tokens(k)[1]) # {}) =>
            /\ Len(Resolvidos(k)) = 1
            /\ LET i == CHOOSE q \in Qualificadas(Tokens(k)[1]) :
                            \A o \in Qualificadas(Tokens(k)[1]) : q <= o
               IN  CaixaEm(i, 1, Resolvidos(k)[1])

(***************************************************************************)
(* Similarity key: normalizar_texto_para_embedding                         *)
(***************************************************************************)
Minusculas == <<"a", "b", "c", "d", "e", "f", "g", "h", "i", "j", "k", "l", "m",
                "n", "o", "p", "q", "r", "s", "t", "u", "v", "w", "x", "y", "z">>
Maiusculas == <<"A", "B", "C", "D", "E", "F", "G", "H", "I", "J", "K", "L", "M",
                "N", "O", "P", "Q", "R", "S", "T", "U", "V", "W", "X", "Y", "Z">>
Letras == {Minusculas[i] : i \in 1..26} \cup {Maiusculas[i] : i \in 1..26}
PalavraChars == Letras \cup Digitos \cup {"_"}                      \* \w

\* str.lower()
Lower(s) ==
    [i \in 1..Len(s) |->
        IF \E j \in 1..26 : Maiusculas[j] = s[i]
        THEN Minusculas[CHOOSE j \in 1..26 : Maiusculas[j] = s[i]]
        ELSE s[i]]

RECURSIVE LStrip(_), RStrip(_)
LStrip(s) == IF s # <<>> /\ Head(s) \in Espacos THEN LStrip(Tail(s)) ELSE s
RStrip(s) == IF s # <<>> /\ s[Len(s)] \in Espacos THEN RStrip(SubSeq(s, 1, Len(s) - 1)) ELSE s
\* str.strip()
Strip(s) == RStrip(LStrip(s))

PadraoData == <<Atom(Digitos, 1, 2), Atom({"/", ".", "-"}, 1, 1), Atom(Digitos, 1, 2),
                Atom({"/", ".", "-"}, 1, 1), Atom(Digitos, 2, 4)>>
PadraoCpf == <<Atom(Digitos, 3, 3), Atom({"."} \cup Espacos, 0, 1),
               Atom(Digitos, 3, 3), Atom({"."} \cup Espacos, 0, 1),
               Atom(Digitos, 3, 3), Atom({"-", "."} \cup Espacos, 0, 1),
               Atom(Digitos, 2, 2)>>
PadraoCnpj == <<Atom(Digitos, 2, 2), Atom({"."} \cup Espacos, 0, 1),
                Atom(Digitos, 3, 3), Atom({"."} \cup Espacos, 0, 1),
                Atom(Digitos, 3, 3), Atom({"/", "."} \cup Espacos, 0, 1),
                Atom(Digitos, 4, 4), Atom({"-", "."} \cup Espacos, 0, 1),
                Atom(Digitos, 2, 2)>>
PadraoEmail == <<Atom(PalavraChars \cup {".", "-"}, 1, Inf), Atom({"@"}, 1, 1),
                 Atom(PalavraChars \cup {".", "-"}, 1, Inf), Atom({"."}, 1, 1),
                 Atom(PalavraChars, 1, Inf)>>
PadraoTelefone == <<Atom({"("}, 0, 1), Atom(Digitos, 2, 2), Atom({")"}, 0, 1),
                    Atom(Espacos, 0, Inf), Atom(Digitos, 4, 5),
                    Atom({"-", "."} \cup Espacos, 0, 1), Atom(Digitos, 4, 4)>>
PadraoEspacos == <<Atom(Espacos, 1, Inf)>>

\* normalizar_texto_para_embedding: the substitutions in the order of the code
normalizar_texto_para_embedding(texto) ==
    LET t1 == re_sub(PadraoNumero, <<" ", "N", "U", "M", " ">>, texto)
        t2 == re_sub(PadraoValor, <<" ", "V", "A", "L", "O", "R", " ">>, t1)
        t3 == re_sub(PadraoData, <<" ", "D", "A", "T", "A", " ">>, t2)
        t4 == re_sub(PadraoCpf, <<" ", "C", "P", "F", " ">>, t3)
        t5 == re_sub(PadraoCnpj, <<" ", "C", "N", "P", "J", " ">>, t4)
        t6 == re_sub(PadraoEmail, <<" ", "E", "M", "A", "I", "L", " ">>, t5)
        t7 == re_sub(PadraoTelefone, <<" ", "T", "E", "L", "E", "F", "O", "N", "E", " ">>, t6)
        t8 == re_sub(PadraoEspacos, <<" ">>, t7)
    IN  Lower(Strip(t8))

(***************************************************************************)
(* ChromaDB: salvar_embedding and buscar_template_similar                  *)
(***************************************************************************)
\* LIMIAR_SIMILARIDADE = 0.75, in hundredths
LIMIAR_SIMILARIDADE == 75

\* what can go wrong in the backend during one call: nothing; the client or
\* the collection cannot be opened (PersistentClient, get_or_create_collection);
\* an operation on the collection (get, add, update, query) raises
Falhas == {"nenhuma", "cliente", "operacao"}

\* get_colecao_chroma(): None without chromadb; its own calls are outside
\* any try block, so their exception leaves the caller
get_colecao_chroma(falha) ==
    IF ~disponivel THEN "None"
    ELSE IF falha = "cliente" THEN "raise"
    ELSE "colecao"

\* document texts, distances (as fractions) and thresholds (in hundredths)
Textos == {<<"N", "F", " ", "1", "2">>, <<"R", "$", " ", "1", ",", "5">>}
Distancias == {[num |-> 0, den |-> 1], [num |-> 1, den |-> 3], [num |-> 3, den |-> 7]}
Limiares == {NoneV, IntV(90)}
ListasSim == {<<>>, <<DictA>>}

\* the similarity key of each document text
Normalizado == [t \in Textos |-> normalizar_texto_para_embedding(t)]

\* placeholder of the distance in a call that does not reach colecao.query
SemDistancia == [num |-> 0, den |-> 1]

\* similaridade = 1.0 / (1.0 + distancia), as a fraction
Similaridade(distancia) == [num |-> distancia.den, den |-> distancia.den + distancia.num]

\* mutant: the comparison is the wrong way round
AbaixoDoLimiar_Invertido(similaridade, limiar) == similaridade.num * 100 > limiar * similaridade.den

\* similaridade < limiar
AbaixoDoLimiar(similaridade, limiar) == similaridade.num * 100 < limiar * similaridade.den

\* the call reaches the collection and the collection is usable
Gravou(falha) == get_colecao_chroma(falha) = "colecao" /\ falha = "nenhuma"

\* the collection after salvar_embedding: colecao.update or colecao.add
ColecaoApos(doc_hash, texto_documento, template_id, falha) ==
    IF Gravou(falha)
    THEN {e \in colecao : e.id # doc_hash} \cup
         {[id |-> doc_hash, document |-> Normalizado[texto_documento],
           template_id |-> template_id, hash |-> doc_hash]}
    ELSE colecao

\* what salvar_embedding returns
RetSalvarEmbedding(falha) ==
    IF get_colecao_chroma(falha) = "raise" THEN Raise("chromadb")
    ELSE BoolV(Gravou(falha))

\* salvar_embedding(doc_hash, texto_documento, template_id)
salvar_embedding(doc_hash, texto_documento, template_id, falha) ==
    /\ colecao' = ColecaoApos(doc_hash, texto_documento, template_id, falha)
    /\ chamada' = [op |-> "salvar_embedding", hash |-> doc_hash,
                   texto |-> texto_documento, falha |-> falha,
                   retorno |-> RetSalvarEmbedding(falha)]
    /\ UNCHANGED <<disponivel, dbVars, matchVars, hashVars, extVars>>

\* the call reaches colecao.query: the collection is usable and not empty
Consultou(falha) ==
    get_colecao_chroma(falha) = "colecao" /\ falha = "nenhuma" /\ colecao # {}

\* the nearest neighbour is at or above the threshold: carregar_template runs
Carregou(limiar, falha, distancia) ==
    /\ Consultou(falha)
    /\ ~AbaixoDoLimiar(Similaridade(distancia),
                       IF limiar.k = "None" THEN LIMIAR_SIMILARIDADE ELSE limiar.v)

\* mutant: the mappings of the neighbour are returned without the test
\* "if mapeamentos is None"
RetBuscar_SemTeste(limiar, falha, vizinho, distancia) ==
    IF get_colecao_chroma(falha) = "raise" THEN Raise("chromadb")
    ELSE IF ~Carregou(limiar, falha, distancia) THEN NoneV
    ELSE [k |-> "tupla",
          v |-> [hash |-> vizinho.hash,
                 similaridade |-> Similaridade(distancia),
                 mapeamentos |-> RetCarregar(vizinho.hash).v]]

\* what buscar_template_similar returns; vizinho and distancia are the
\* nearest neighbour and its distance as colecao.query reports them
RetBuscar(limiar, falha, vizinho, distancia) ==
    IF get_colecao_chroma(falha) = "raise" THEN Raise("chromadb")
    ELSE IF ~Carregou(limiar, falha, distancia) THEN NoneV
    ELSE IF RetCarregar(vizinho.hash).k = "None" THEN NoneV
    ELSE [k |-> "tupla",
          v |-> [hash |-> vizinho.hash,
                 similaridade |-> Similaridade(distancia),
                 mapeamentos |-> RetCarregar(vizinho.hash).v]]

\* buscar_template_similar(texto_documento, limiar)
buscar_template_similar(texto_documento, limiar, falha, vizinho, distancia) ==
    /\ IF Consultou(falha) THEN vizinho \in colecao
                            ELSE vizinho = NoneV /\ distancia = SemDistancia
    /\ tabelas' = (tabelas \/ Carregou(limiar, falha, distancia))
    /\ chamada' = [op |-> "buscar_template_similar", limiar |-> limiar,
                   falha |-> falha, consultou |-> Consultou(falha),
                   vizinho |-> vizinho, distancia |-> distancia,
                   retorno |-> RetBuscar(limiar, falha, vizinho, distancia)]
    /\ UNCHANGED <<templates, mapeamentos, seq, simVars, matchVars, hashVars, extVars>>

InitSim ==
    /\ InitDb /\ SemMatch /\ SemHash /\ SemExt
    /\ disponivel \in BOOLEAN
    /\ colecao = {}

NextSim ==
    \/ \E h \in Hashes, m \in ListasSim : salvar_template(h, m, Null, Null)
    \/ \E h \in Hashes : deletar_template(h)
    \/ \E h \in Hashes, t \in Textos, f \in Falhas :
          \E tpl \in SelectTemplate(h) : salvar_embedding(h, t, tpl.id, f)
    \/ \E t \in Textos, l \in Limiares, f \in Falhas,
          v \in colecao \cup {NoneV}, d \in Distancias :
          buscar_template_similar(t, l, f, v, d)

SpecSim == InitSim /\ [][NextSim]_vars

(***************************************************************************)
(* Claims about the similarity tier                                        *)
(***************************************************************************)
Buscou == chamada.op = "buscar_template_similar"

\* C7 - similarity monotonicity: buscar_template_similar never returns a
\* match whose similarity 1 / (1 + distance) of the nearest neighbour is
\* below the threshold; a nearest neighbour below the threshold gives None;
\* without a threshold argument the threshold is 0.75.
C7_SimilarityThreshold ==
    Buscou =>
        LET l == IF chamada.limiar.k = "None" THEN 75 ELSE chamada.limiar.v
            n == chamada.distancia.num
            d == chamada.distancia.den
        IN  /\ (chamada.retorno.k = "tupla") =>
                  /\ chamada.retorno.v.similaridade.num * (d + n) =
                        d * chamada.retorno.v.similaridade.den
                  /\ 100 * d >= l * (d + n)
            /\ (chamada.consultou /\ 100 * d < l * (d + n)) =>
                  chamada.retorno.k = "None"

\* a match returned under the default threshold, with similarity 0.75
C7_Witness ==
    /\ Buscou
    /\ chamada.limiar.k = "None"
    /\ chamada.retorno.k = "tupla"
    /\ chamada.retorno.v.similaridade = [num |-> 3, den |-> 4]

\* C8 - the similarity operations never raise: when the backend is
\* unavailable or a backend operation fails, salvar_embedding returns False
\* and buscar_template_similar returns None; salvar_embedding returns True
\* only after the embedding of the fingerprint was written.
C8_NeverRaises ==
    /\ (chamada.op = "salvar_embedding") =>
          /\ chamada.retorno.k = "bool"
          /\ (~disponivel \/ chamada.falha # "nenhuma") => chamada.retorno.v = FALSE
          /\ (chamada.retorno.v = TRUE) =>
                \E e \in colecao :
                    /\ e.id = chamada.hash
                    /\ e.document = Normalizado[chamada.texto]
    /\ Buscou =>
          /\ chamada.retorno.k \in {"None", "tupla"}
          /\ (~disponivel \/ chamada.falha # "nenhuma") => chamada.retorno.k = "None"

(***************************************************************************)
(* Overlay: gerar_pdf_com_substituicoes (app.py and main.py)               *)
(***************************************************************************)
\* page_height of page_size of the documents of the model: A4, in points
AlturaPagina == 842

\* app.py: if tipo not in novos_valores or not novos_valores[tipo]: continue
PulaApp(tipo, novos_valores) ==
    tipo \notin DOMAIN novos_valores \/ novos_valores[tipo] = <<>>

\* main.py: if tipo not in novos_valores: continue
PulaMain(tipo, novos_valores) == tipo \notin DOMAIN novos_valores

Pula(var, tipo, novos_valores) ==
    IF var = "app" THEN PulaApp(tipo, novos_valores) ELSE PulaMain(tipo, novos_valores)

\* what the loop body draws for one mapping: the white rectangle of c.rect
\* and the text of c.drawString; y_texto and font_size in tenths of a point
Desenho(m, novo_valor, page_height) ==
    LET y_reportlab == page_height - m.bottom
        altura      == m.bottom - m.top
        largura     == m.x1 - m.x0
        margem      == 2
        largura_novo_texto == Len(novo_valor) * 6
    IN  [tipo |-> m.tipo,
         rect |-> [x |-> m.x0 - margem, y |-> y_reportlab - margem,
                   w |-> Max(largura, largura_novo_texto) + (margem * 2) + 10,
                   h |-> altura + (margem * 2)],
         string |-> [x |-> m.x0, y10 |-> 10 * y_reportlab + 2 * altura,
                     font10 |-> IF 8 * altura <= 120 THEN 8 * altura ELSE 120,
                     texto |-> novo_valor]]

RECURSIVE DesenhaDe(_, _, _, _, _)
\* the loop "for mapeamento in mapeamentos" from mapping k on
DesenhaDe(var, maps, novos_valores, page_height, k) ==
    IF k > Len(maps) THEN <<>>
    ELSE (IF Pula(var, maps[k].tipo, novos_valores) THEN <<>>
          ELSE <<Desenho(maps[k], novos_valores[maps[k].tipo], page_height)>>)
         \o DesenhaDe(var, maps, novos_valores, page_height, k + 1)

\* everything gerar_pdf_com_substituicoes draws on the overlay page
Desenha(var, maps, novos_valores, page_height) ==
    DesenhaDe(var, maps, novos_valores, page_height, 1)

\* inputs: the new value of a field is absent, empty, short or long
TiposOverlay == {"NOME", "DATA"}
TextosNovos  == {<<>>, <<"x">>, <<"M", "a", "r", "i", "a", " ", "S", "i", "l", "v", "a">>}
NovosValores == UNION {[D -> TextosNovos] : D \in SUBSET TiposOverlay}

SemOverlayFeito(maps, novos_valores) ==
    overlay = [variante |-> "", mapeamentos |-> maps, novos_valores |-> novos_valores]

InitOverlay ==
    /\ SemDb /\ SemSim /\ SemMatch /\ SemHash /\ SemMemoria /\ SemSessao /\ SemNovos
    /\ \E maps \in Listas, nv \in NovosValores : SemOverlayFeito(maps, nv)

\* a call of app.gerar_pdf_com_substituicoes
gerar_pdf_app ==
    /\ overlay.variante = ""
    /\ overlay' = [variante |-> "app", mapeamentos |-> overlay.mapeamentos,
                   novos_valores |-> overlay.novos_valores,
                   ops |-> Desenha("app", overlay.mapeamentos, overlay.novos_valores,
                                   AlturaPagina)]
    /\ UNCHANGED <<dbVars, simVars, chamada, matchVars, hashVars, memoria, sessao, novosVars>>

\* a call of main.gerar_pdf_com_substituicoes
gerar_pdf_main ==
    /\ overlay.variante = ""
    /\ overlay' = [variante |-> "main", mapeamentos |-> overlay.mapeamentos,
                   novos_valores |-> overlay.novos_valores,
                   ops |-> Desenha("main", overlay.mapeamentos, overlay.novos_valores,
                                   AlturaPagina)]
    /\ UNCHANGED <<dbVars, simVars, chamada, matchVars, hashVars, memoria, sessao, novosVars>>

NextOverlay == gerar_pdf_app \/ gerar_pdf_main

SpecOverlay == InitOverlay /\ [][NextOverlay]_vars

\* the mappings whose field has a non-empty new value
ComValor(maps, novos_valores) ==
    SelectSeq(maps, LAMBDA m : m.tipo \in DOMAIN novos_valores
                               /\ novos_valores[m.tipo] # <<>>)

\* C18 - the overlay draws a redaction and a replacement exactly for the
\* mappings whose tipo is in novos_valores with a non-empty string, in the
\* order of the list; a field absent from novos_valores or mapped to the
\* empty string gets no drawing at all.
C18_OverlayFrame ==
    (overlay.variante # "") =>
        LET com == ComValor(overlay.mapeamentos, overlay.novos_valores)
        IN  /\ Len(overlay.ops) = Len(com)
            /\ \A i \in 1..Len(overlay.ops) :
                  /\ overlay.ops[i].tipo = com[i].tipo
                  /\ overlay.ops[i].string.texto = overlay.novos_valores[com[i].tipo]
                  /\ overlay.ops[i].string.texto # <<>>

(***************************************************************************)
(* Orchestrators: the analysis block of app.py ("Etapa 2") and             *)
(* processar_documento of main.py.  app.py keeps its templates in SQLite   *)
(* and ChromaDB, main.py in the dict templates_db; one run of the model    *)
(* is one of the two programs.                                             *)
(***************************************************************************)
MaxObjetos == 3   \* list objects main.py allocates for mappings

\* the documents: fingerprint, extracted text, positioned words
Doc1 == [hash |-> "h1", texto |-> <<"N", "F", " ", "1", "2">>,
         palavras |-> <<Palavra(1, <<"a">>), Palavra(2, <<"b">>)>>]
Doc2 == [hash |-> "h2", texto |-> <<"R", "$", " ", "1", ",", "5">>,
         palavras |-> <<Palavra(1, <<"b">>)>>]
Documentos == {Doc1, Doc2}

\* what analisar_com_llm may answer: nothing, a candidate whose value is a
\* word of Doc1, a candidate whose value is on no page
Propostas == {<<>>, <<Variavel(1, <<"a">>)>>, <<Variavel(1, <<"z">>)>>}

\* what can go wrong in SQLite during one analysis: nothing; the statements
\* of carregar_template raise; the statements of salvar_template raise
FalhasDb == {"nenhuma", "carregar", "salvar"}

\* novos_valores of processar_documento: None, a value, an empty value
NovosMain == {<<>>, [CAMPO_1 |-> <<"x">>], [CAMPO_1 |-> <<>>]}

Pulado == [k |-> "pulado", v |-> <<>>]

\* bool(v) of Python for the values of the model
Verdadeiro(v) ==
    IF v.k \in {"None", "pulado"} THEN FALSE
    ELSE IF v.k = "lista" THEN v.v # <<>>
    ELSE TRUE

\* st.session_state of app.py after the initialisation of lines 476-497;
\* arquivo_pdf and page_size are named by the document they were taken from,
\* and mapeamentos_doc names the document whose analysis assigned mapeamentos
EstadoInicial ==
    [mapeamentos |-> NoneV, doc_hash |-> NoneV, arquivo_pdf |-> NoneV,
     page_size |-> NoneV, template_do_banco |-> FALSE, mapeamentos_doc |-> NoneV]

\* what carregar_template returns for every fingerprint
LojaDb == [h \in Hashes |-> RetCarregar(h)]

\* main.py, carregar_template on a memory: the value of the stored list
MemCarregar(mem, h) ==
    IF h \in DOMAIN mem.db THEN ListaV(mem.heap[mem.db[h]]) ELSE NoneV
LojaMem(mem) == [h \in Hashes |-> MemCarregar(mem, h)]

\* app.py, "if analisar:" - one click on "Analisar Documento" for doc
analisar_app(doc, variaveis, fdb, fbusca, femb, vizinho, distancia) ==
    LET carregado == IF fdb = "carregar" THEN Raise("sqlite3") ELSE RetCarregar(doc.hash)
        hit       == carregado.k # "raise" /\ Verdadeiro(carregado)
        miss      == carregado.k # "raise" /\ ~hit
        busca     == IF miss /\ disponivel
                     THEN RetBuscar(NoneV, fbusca, vizinho, distancia)
                     ELSE Pulado
        similar   == busca.k = "tupla"
        chama_llm == miss /\ busca.k # "raise" /\ ~similar
        mapeia    == chama_llm /\ variaveis # <<>>
        maps      == IF similar THEN busca.v.mapeamentos
                     ELSE IF mapeia THEN MapearApp(variaveis, doc.palavras)
                     ELSE <<>>
        salva     == similar \/ mapeia
        salvou    == salva /\ fdb # "salvar"
        embute    == salvou /\ disponivel
        e0        == sessao.estado
        e1        == [e0 EXCEPT !.doc_hash = doc.hash]
        e2        == IF hit
                     THEN [e1 EXCEPT !.mapeamentos = carregado, !.template_do_banco = TRUE,
                                     !.arquivo_pdf = doc.hash, !.page_size = doc.hash,
                                     !.mapeamentos_doc = doc.hash]
                     ELSE IF miss
                     THEN [e1 EXCEPT !.arquivo_pdf = doc.hash, !.page_size = doc.hash]
                     ELSE e1
        e3        == IF salva
                     THEN [e2 EXCEPT !.mapeamentos = ListaV(maps),
                                     !.template_do_banco = similar,
                                     !.mapeamentos_doc = doc.hash]
                     ELSE e2
    IN  /\ sessao.variante \in {"", "app"}
        /\ IF miss /\ disponivel /\ Consultou(fbusca)
           THEN vizinho \in colecao
           ELSE vizinho = NoneV /\ distancia = SemDistancia
        /\ (~(miss /\ disponivel)) => fbusca = "nenhuma"
        /\ (~chama_llm) => variaveis = <<>>
        /\ (~embute) => femb = "nenhuma"
        /\ IF salvou
           THEN SalvarEfeito(doc.hash, maps, Null, Null)
           ELSE /\ tabelas' = (tabelas \/ fdb # "carregar")
                /\ UNCHANGED <<templates, mapeamentos, seq>>
        /\ colecao' = IF embute
                      THEN ColecaoApos(doc.hash, doc.texto, IdTemplate(doc.hash), femb)
                      ELSE colecao
        /\ sessao' = [variante |-> "app", hash |-> doc.hash, forcar |-> FALSE,
                      carregado |-> carregado, similar |-> busca,
                      chamou_llm |-> chama_llm, variaveis |-> variaveis,
                      chamou_matcher |-> mapeia,
                      salvar |-> IF ~salva THEN "nao" ELSE IF salvou THEN "ok" ELSE "raise",
                      excecao |-> \/ carregado.k = "raise"
                                  \/ busca.k = "raise"
                                  \/ (salva /\ ~salvou)
                                  \/ (embute /\ RetSalvarEmbedding(femb).k = "raise"),
                      gerou_pdf |-> FALSE,
                      retorno |-> e3.mapeamentos,
                      antes |-> LojaDb, depois |-> LojaDb',
                      estado |-> e3]
        /\ UNCHANGED <<disponivel, chamada, matchVars, hashVars, memoria, overlay, novosVars>>

\* main.py, processar_documento(pdf_entrada, pdf_saida, novos_valores,
\* forcar_nova_analise) for doc
processar_main(doc, variaveis, forcar, novos_valores) ==
    LET carregado == IF forcar THEN Pulado ELSE MemCarregar(memoria, doc.hash)
        miss      == carregado.k # "lista"
        vazio     == miss /\ variaveis = <<>>
        mapeia    == miss /\ variaveis # <<>>
        maps      == IF mapeia THEN MapearMain(variaveis, doc.palavras)
                     ELSE IF miss THEN <<>>
                     ELSE carregado.v
        novo      == Len(memoria.heap) + 1
        gera      == ~vazio /\ novos_valores # <<>>
        mem1      == IF mapeia
                     THEN [db |-> (doc.hash :> novo) @@ memoria.db,
                           heap |-> Append(memoria.heap, maps),
                           maos |-> memoria.maos \cup {novo}]
                     ELSE IF ~miss
                     THEN [memoria EXCEPT !.maos = @ \cup {memoria.db[doc.hash]}]
                     ELSE memoria
    IN  /\ sessao.variante \in {"", "main"}
        /\ mapeia => Len(memoria.heap) < MaxObjetos
        /\ (~miss) => variaveis = <<>>
        /\ memoria' = mem1
        /\ overlay' = IF gera
                      THEN [variante |-> "main", mapeamentos |-> maps,
                            novos_valores |-> novos_valores,
                            ops |-> Desenha("main", maps, novos_valores, AlturaPagina)]
                      ELSE overlay
        /\ sessao' = [variante |-> "main", hash |-> doc.hash, forcar |-> forcar,
                      carregado |-> carregado, similar |-> Pulado,
                      chamou_llm |-> miss, variaveis |-> variaveis,
                      chamou_matcher |-> mapeia,
                      salvar |-> IF mapeia THEN "ok" ELSE "nao",
                      excecao |-> FALSE,
                      gerou_pdf |-> gera,
                      retorno |-> ListaV(maps),
                      antes |-> LojaMem(memoria), depois |-> LojaMem(mem1),
                      estado |-> sessao.estado]
        /\ UNCHANGED <<dbVars, simVars, chamada, matchVars, hashVars, novosVars>>

InitOrq ==
    /\ InitDb /\ SemMatch /\ SemHash /\ SemMemoria /\ SemOverlay /\ SemNovos
    /\ disponivel \in BOOLEAN
    /\ colecao = {}
    /\ sessao = [variante |-> "", estado |-> EstadoInicial]

NextOrq ==
    \/ \E doc \in Documentos, vs \in Propostas, fdb \in FalhasDb,
          fb \in Falhas, fe \in Falhas, v \in colecao \cup {NoneV}, d \in Distancias :
          analisar_app(doc, vs, fdb, fb, fe, v, d)
    \/ \E doc \in Documentos, vs \in Propostas, forcar \in BOOLEAN, nv \in NovosMain :
          processar_main(doc, vs, forcar, nv)

SpecOrq == InitOrq /\ [][NextOrq]_vars

(***************************************************************************)
(* Claims about the orchestrators                                          *)
(***************************************************************************)
Analisou == sessao.variante # ""

\* the document of the last analysis
DocDe(h) == CHOOSE d \in Documentos : d.hash = h

\* C14 - template reuse: when carregar_template finds a template for the
\* document's fingerprint and no new analysis is forced, the orchestrator
\* delivers the stored mappings, does not call analisar_com_llm and does not
\* write the template; analisar_com_llm is called only after the exact
\* lookup (and in app.py the similarity lookup) found nothing.
C14_TemplateReuse ==
    Analisou =>
        /\ (~sessao.forcar /\ sessao.carregado.k = "lista") =>
               /\ ~sessao.chamou_llm
               /\ sessao.salvar = "nao"
               /\ sessao.retorno = sessao.carregado
               /\ sessao.depois = sessao.antes
        /\ sessao.chamou_llm =>
               /\ sessao.forcar \/ sessao.carregado.k = "None"
               /\ sessao.similar.k # "tupla"

\* C15 - best-effort caching: a cache miss and a cache backend that is
\* unavailable or fails never block the analysis: without a usable hit
\* analisar_com_llm is called, and its candidates go through the matcher
\* and are delivered to the caller.
C15_BestEffort ==
    Analisou =>
        /\ (/\ sessao.carregado.k \in {"None", "raise", "pulado"}
            /\ sessao.similar.k \in {"None", "raise", "pulado"}) => sessao.chamou_llm
        /\ (sessao.chamou_llm /\ sessao.variaveis # <<>>) =>
               /\ sessao.chamou_matcher
               /\ sessao.retorno.k = "lista"
               /\ sessao.retorno.v =
                     MapeiaTodas(sessao.variaveis, DocDe(sessao.hash).palavras,
                                 sessao.variante = "app", 1)

\* C16 - no candidate fields: when analisar_com_llm returns an empty list
\* the orchestrator ends without exception and with an empty result, the
\* template store is as it was, and no overlay is generated.
C16_EmptyProposal ==
    (Analisou /\ sessao.chamou_llm /\ sessao.variaveis = <<>>) =>
        /\ ~sessao.excecao
        /\ sessao.salvar = "nao"
        /\ sessao.depois = sessao.antes
        /\ ~sessao.gerou_pdf
        /\ sessao.retorno \in {NoneV, ListaV(<<>>)}

\* C17 - template lifecycle: the orchestrator writes a template only for an
\* analysis that resolved fields; after an analysis that wrote the template
\* of the document, that template holds at least one mapping.
C17_Lifecycle ==
    (Analisou /\ sessao.salvar = "ok") =>
        /\ sessao.depois[sessao.hash].k = "lista"
        /\ sessao.depois[sessao.hash].v # <<>>

(***************************************************************************)
(* List objects: who holds the list that was saved or loaded.              *)
(* memoria.heap are the list objects of the process, memoria.maos the      *)
(* objects the caller holds, memoria.db is templates_db of main.py (the    *)
(* object stored under each fingerprint).  The store in use is main.py's   *)
(* dict or database.py's SQLite tables.                                    *)
(***************************************************************************)
Lojas == {"main", "database"}

\* what carregar_template of the store in use returns for every fingerprint
LojaAtual == IF memoria.loja = "main" THEN LojaMem(memoria) ELSE LojaDb

\* the caller builds a list of mappings
cria_lista(lista) ==
    /\ Len(memoria.heap) < MaxObjetos
    /\ memoria' = [memoria EXCEPT !.heap = Append(@, lista),
                                  !.maos = @ \cup {Len(memoria.heap) + 1},
                                  !.op = "cria_lista", !.antes = LojaAtual]
    /\ UNCHANGED <<dbVars, simVars, chamada, matchVars, hashVars, sessao, overlay, novosVars>>

\* the caller changes a list it holds: lista.append(d) or lista.clear()
muta(r, como) ==
    /\ r \in memoria.maos
    /\ IF como = "append" THEN Len(memoria.heap[r]) < MaxLista
                          ELSE memoria.heap[r] # <<>>
    /\ memoria' = [memoria EXCEPT
                      !.heap[r] = IF como = "append" THEN Append(@, DictB) ELSE <<>>,
                      !.op = "muta", !.antes = LojaAtual]
    /\ UNCHANGED <<dbVars, simVars, chamada, matchVars, hashVars, sessao, overlay, novosVars>>

\* main.py, salvar_template(doc_hash, mapeamentos): the dict entry refers to
\* the caller's list
main_salvar_template(doc_hash, r) ==
    /\ memoria.loja = "main"
    /\ r \in memoria.maos
    /\ memoria' = [memoria EXCEPT !.db = (doc_hash :> r) @@ @,
                                  !.op = "salvar_template", !.antes = LojaAtual]
    /\ UNCHANGED <<dbVars, simVars, chamada, matchVars, hashVars, sessao, overlay, novosVars>>

\* main.py, carregar_template(doc_hash): returns the stored list itself
main_carregar_template(doc_hash) ==
    /\ memoria.loja = "main"
    /\ memoria' = [memoria EXCEPT
                      !.maos = IF doc_hash \in DOMAIN memoria.db
                               THEN @ \cup {memoria.db[doc_hash]} ELSE @,
                      !.op = "carregar_template", !.antes = LojaAtual]
    /\ UNCHANGED <<dbVars, simVars, chamada, matchVars, hashVars, sessao, overlay, novosVars>>

\* database.py, salvar_template(doc_hash, mapeamentos) with a list the
\* caller holds: the values of the dicts are copied into rows
db_salvar_template(doc_hash, r) ==
    /\ memoria.loja = "database"
    /\ r \in memoria.maos
    /\ SalvarEfeito(doc_hash, memoria.heap[r], Null, Null)
    /\ memoria' = [memoria EXCEPT !.op = "salvar_template", !.antes = LojaAtual]
    /\ UNCHANGED <<simVars, chamada, matchVars, hashVars, sessao, overlay, novosVars>>

\* database.py, carregar_template(doc_hash): a new list is built from the rows
db_carregar_template(doc_hash) ==
    /\ memoria.loja = "database"
    /\ RetCarregar(doc_hash).k = "lista" => Len(memoria.heap) < MaxObjetos
    /\ tabelas' = TRUE
    /\ memoria' = IF RetCarregar(doc_hash).k = "lista"
                  THEN [memoria EXCEPT !.heap = Append(@, RetCarregar(doc_hash).v),
                                       !.maos = @ \cup {Len(memoria.heap) + 1},
                                       !.op = "carregar_template", !.antes = LojaAtual]
                  ELSE [memoria EXCEPT !.op = "carregar_template", !.antes = LojaAtual]
    /\ UNCHANGED <<templates, mapeamentos, seq, simVars, chamada, matchVars, hashVars,
                   sessao, overlay, novosVars>>

InitMem ==
    /\ InitDb /\ SemSim /\ SemMatch /\ SemHash /\ SemSessao /\ SemOverlay /\ SemNovos
    /\ \E l \in Lojas :
          memoria = [db |-> <<>>, heap |-> <<>>, maos |-> {}, loja |-> l,
                     op |-> "", antes |-> [h \in Hashes |-> NoneV]]

NextMem ==
    \/ \E lista \in ListasSim : cria_lista(lista)
    \/ \E r \in 1..MaxObjetos, como \in {"append", "clear"} : muta(r, como)
    \/ \E h \in Hashes, r \in 1..MaxObjetos : main_salvar_template(h, r)
    \/ \E h \in Hashes : main_carregar_template(h)
    \/ \E h \in Hashes, r \in 1..MaxObjetos : db_salvar_template(h, r)
    \/ \E h \in Hashes : db_carregar_template(h)

SpecMem == InitMem /\ [][NextMem]_vars

\* C19 - callers receive copies: after the caller changed a list it got
\* from carregar_template or passed to salvar_template, carregar_template
\* returns for every fingerprint what it returned before the change.
C19_CallersReceiveCopies ==
    (memoria.op = "muta") => LojaAtual = memoria.antes

(***************************************************************************)
(* Two sessions in salvar_template at the same time                        *)
(*                                                                         *)
(* Each session has its own connection.  sqlite3 opens the transaction     *)
(* before the first INSERT/UPDATE/DELETE, never before a SELECT, so the    *)
(* SELECT of line 127 reads the committed database outside a transaction.  *)
(* The first write statement takes the write lock of the file; the other   *)
(* session's write statement waits for it (busy timeout), its reads go on  *)
(* and see the committed rows only.  The statements after the first write  *)
(* run under the lock, so what they do is applied when the lock is         *)
(* released by conn.commit().                                              *)
(***************************************************************************)
Sessoes     == {1, 2}
HashConc    == "h1"
ListasConc  == {<<DictA>>, <<DictB>>}

SessaoParada == [pc |-> "", maps |-> <<>>, resultado |-> NoneV, retorno |-> NoneV]

\* salvar_template is entered: conn = get_conexao(); criar_tabelas()
conc_chama(s, maps) ==
    /\ conc.ses[s].pc \in {"", "fim"}
    /\ seq.mapeamentos + Len(maps) <= MaxMapeamentoId
    /\ tabelas' = TRUE
    /\ conc' = [conc EXCEPT !.ses[s] = [pc |-> "select", maps |-> maps,
                                        resultado |-> NoneV, retorno |-> NoneV]]
    /\ UNCHANGED <<templates, mapeamentos, seq, simVars, chamada, matchVars, hashVars,
                   memoria, sessao, overlay, arquivo, chave>>

\* cursor.execute("SELECT id FROM templates WHERE hash = ?"); fetchone()
conc_select(s) ==
    /\ conc.ses[s].pc = "select"
    /\ conc' = [conc EXCEPT !.ses[s].pc = "escreve",
                            !.ses[s].resultado =
                                IF SelectTemplate(HashConc) = {} THEN NoneV
                                ELSE IntV((CHOOSE t \in SelectTemplate(HashConc) : TRUE).id)]
    /\ UNCHANGED <<dbVars, simVars, chamada, matchVars, hashVars,
                   memoria, sessao, overlay, arquivo, chave>>

\* INSERT INTO templates of a hash that another session has committed since
\* the SELECT: UNIQUE constraint failed: templates.hash
Rejeitado(s) == conc.ses[s].resultado = NoneV /\ RetExiste(HashConc)

\* the first write statement: UPDATE templates when the SELECT found the row,
\* INSERT INTO templates otherwise.  A rejected INSERT goes to
\* except Exception: conn.rollback(); raise e
conc_escreve(s) ==
    /\ conc.ses[s].pc = "escreve"
    /\ conc.trava = 0
    /\ conc' = IF Rejeitado(s)
               THEN [conc EXCEPT !.ses[s].pc = "fim",
                                 !.ses[s].retorno = Raise("IntegrityError")]
               ELSE [conc EXCEPT !.ses[s].pc = "commit", !.trava = s]
    /\ UNCHANGED <<dbVars, simVars, chamada, matchVars, hashVars,
                   memoria, sessao, overlay, arquivo, chave>>

\* DELETE FROM mapeamentos, the INSERT loop, conn.commit(); return template_id
conc_commit(s) ==
    /\ conc.ses[s].pc = "commit"
    /\ conc.trava = s
    /\ SalvarEfeito(HashConc, conc.ses[s].maps, Null, Null)
    /\ conc' = [conc EXCEPT !.ses[s].pc = "fim", !.trava = 0,
                            !.ses[s].retorno = IntV(IdTemplate(HashConc))]
    /\ UNCHANGED <<simVars, chamada, matchVars, hashVars,
                   memoria, sessao, overlay, arquivo, chave>>

InitConc ==
    /\ InitDb /\ SemSim /\ SemMatch /\ SemHash /\ SemMemoria /\ SemSessao /\ SemOverlay
    /\ SemArquivo /\ SemChave
    /\ conc = [trava |-> 0, ses |-> [s \in Sessoes |-> SessaoParada]]

NextConc ==
    \/ \E s \in Sessoes, maps \in ListasConc : conc_chama(s, maps)
    \/ \E s \in Sessoes : conc_select(s)
    \/ \E s \in Sessoes : conc_escreve(s)
    \/ \E s \in Sessoes : conc_commit(s)

SpecConc == InitConc /\ [][NextConc]_vars

\* both sessions have returned from a call
AmbasTerminaram == \A s \in Sessoes : conc.ses[s].pc = "fim"

\* C21 - last write wins: no concurrent salvar_template of the same
\* fingerprint ends in an exception, and once both sessions have returned the
\* fingerprint has at most one template row whose mapping list is exactly
\* the list of one of the two calls.
C21_LastWriteWins ==
    /\ \A s \in Sessoes : conc.ses[s].retorno.k # "raise"
    /\ AmbasTerminaram =>
          /\ Cardinality(SelectTemplate(HashConc)) <= 1
          /\ \E s \in Sessoes : RetCarregar(HashConc) = ListaV(conc.ses[s].maps)

(***************************************************************************)
(* conversor.py: dispatch on the extension of the file name                *)
(***************************************************************************)
FORMATOS_PDF    == {<<".", "p", "d", "f">>}
FORMATOS_IMAGEM == {<<".", "p", "n", "g">>, <<".", "j", "p", "g">>,
                    <<".", "j", "p", "e", "g">>, <<".", "b", "m", "p">>,
                    <<".", "t", "i", "f", "f">>, <<".", "t", "i", "f">>}
FORMATOS_WORD   == {<<".", "d", "o", "c", "x">>, <<".", "d", "o", "c">>}
TODOS_FORMATOS  == FORMATOS_PDF \cup FORMATOS_IMAGEM \cup FORMATOS_WORD

\* str.rfind("."): the last position of a dot, 0 when there is none
UltimoPonto(nome) ==
    IF \E i \in 1..Len(nome) : nome[i] = "."
    THEN CHOOSE i \in 1..Len(nome) :
            nome[i] = "." /\ \A j \in (i + 1)..Len(nome) : nome[j] # "."
    ELSE 0

\* pathlib's PurePath.suffix of a bare file name: the text from the last dot,
\* empty when the dot is the first or the last character
Suffix(nome) ==
    LET i == UltimoPonto(nome)
    IN  IF 1 < i /\ i < Len(nome) THEN SubSeq(nome, i, Len(nome)) ELSE <<>>

\* mutant: the extension keeps the case of the file name
get_extensao_SemLower(filename) == Suffix(filename)

\* get_extensao(filename): Path(filename).suffix.lower()
get_extensao(filename) == Lower(Suffix(filename))

eh_pdf(filename)    == get_extensao(filename) \in FORMATOS_PDF
eh_imagem(filename) == get_extensao(filename) \in FORMATOS_IMAGEM
eh_word(filename)   == get_extensao(filename) \in FORMATOS_WORD

\* the if / elif / elif / else chain of both functions: the branch taken
Ramo(filename) ==
    IF eh_pdf(filename) THEN "PDF"
    ELSE IF eh_imagem(filename) THEN "Imagem"
    ELSE IF eh_word(filename) THEN "Word"
    ELSE "else"

\* a handler can fail for its own reasons (a library that is not installed)
FalhasHandler == {"nenhuma", "ImportError"}

\* the branch that was entered calls its handler; the else branch raises
Despacho(op, filename, falha) ==
    LET ramo == Ramo(filename)
    IN  [op |-> op, filename |-> filename,
         chamados |-> IF ramo = "else" THEN {} ELSE {ramo},
         retorno |-> IF ramo = "else" THEN Raise("ValueError: Formato nao suportado")
                     ELSE IF falha # "nenhuma" /\ ~(op = "processar_documento" /\ ramo = "PDF")
                          THEN Raise(falha)
                     ELSE [k |-> "tupla", v |-> ramo]]

\* processar_documento(file, filename)
processar_documento(filename, falha) ==
    /\ arquivo' = Despacho("processar_documento", filename, falha)
    /\ UNCHANGED <<dbVars, simVars, chamada, matchVars, hashVars,
                   memoria, sessao, overlay, conc, chave>>

\* extrair_texto_documento(file, filename, forcar_ocr)
extrair_texto_documento(filename, falha) ==
    /\ arquivo' = Despacho("extrair_texto_documento", filename, falha)
    /\ UNCHANGED <<dbVars, simVars, chamada, matchVars, hashVars,
                   memoria, sessao, overlay, conc, chave>>

\* file names: a stem followed by an ending
Radicais == {<<"a">>, <<"a", ".", "b">>, <<>>, <<"a", ".", "p", "d", "f">>}
Finais ==
    TODOS_FORMATOS \cup
    {<<".", "P", "D", "F">>, <<".", "P", "d", "f">>, <<".", "J", "P", "G">>,
     <<".", "J", "p", "e", "G">>, <<".", "T", "I", "F">>, <<".", "D", "O", "C", "X">>,
     <<".", "D", "o", "c">>, <<".", "P", "N", "G">>,
     <<".", "m", "p", "4">>, <<".", "t", "x", "t">>, <<".", "p", "d">>,
     <<".", "p", "d", "f", "x">>, <<>>, <<".">>, <<".", "p", "d", "f", ".">>,
     <<"p", "d", "f">>, <<".", "p", "d", "f", " ">>}
NomesArquivo == {r \o f : r \in Radicais, f \in Finais}

InitArquivo ==
    /\ InitDb /\ SemSim /\ SemMatch /\ SemHash /\ SemMemoria /\ SemSessao /\ SemOverlay
    /\ SemConc /\ SemChave /\ SemArquivo

NextArquivo ==
    \/ \E filename \in NomesArquivo, falha \in FalhasHandler : processar_documento(filename, falha)
    \/ \E filename \in NomesArquivo, falha \in FalhasHandler : extrair_texto_documento(filename, falha)

SpecArquivo == InitArquivo /\ [][NextArquivo]_vars

\* the extension of a file name, in the case it was written in
ExtensaoDoNome(nome) == Suffix(nome)

\* the handler a supported extension belongs to
HandlerDe(ext) ==
    IF ext \in FORMATOS_PDF THEN "PDF"
    ELSE IF ext \in FORMATOS_IMAGEM THEN "Imagem" ELSE "Word"

\* C22 - unsupported format is a hard failure: both functions raise the
\* "Formato nao suportado" ValueError exactly when the lower-cased extension of
\* the file name is none of the supported ones, and a supported extension
\* is dispatched to exactly one handler, the one of its format.
C22_UnsupportedFormat ==
    (arquivo.op # "") =>
        LET ext == Lower(ExtensaoDoNome(arquivo.filename))
        IN  /\ (arquivo.retorno = Raise("ValueError: Formato nao suportado"))
                  <=> (ext \notin TODOS_FORMATOS)
            /\ (ext \in TODOS_FORMATOS) => arquivo.chamados = {HandlerDe(ext)}
            /\ (ext \notin TODOS_FORMATOS) => arquivo.chamados = {}

\* a name with an upper-case supported extension was dispatched to the
\* image handler
C22_Witness ==
    /\ arquivo.op = "extrair_texto_documento"
    /\ arquivo.filename = <<"a", ".", "J", "P", "G">>
    /\ arquivo.chamados = {"Imagem"}

(***************************************************************************)
(* The matcher on a page with two lines                                    *)
(*                                                                         *)
(* The word list is in reading order: left to right within a line, then    *)
(* the next line, so a value of several tokens can run over a line break.  *)
(***************************************************************************)
Posicoes == <<[col |-> 1, lin |-> 1], [col |-> 2, lin |-> 1],
              [col |-> 1, lin |-> 2], [col |-> 2, lin |-> 2]>>
TextosLinha == {<<"a">>, <<"b">>}

\* box of the word with the given text at a column of a line
PalavraEm(p, text) ==
    [text |-> text, x0 |-> 100 * Posicoes[p].col, top |-> 20 * Posicoes[p].lin,
     x1 |-> 100 * Posicoes[p].col + 40, bottom |-> 20 * Posicoes[p].lin + Altura(text)]

\* word lists of up to three words at increasing positions
ListasPalavrasLinha ==
    {[i \in 1..Len(pt) |-> PalavraEm(pt[i][1], pt[i][2])] :
        pt \in {q \in SeqsUpTo((1..4) \X TextosLinha, 3) :
                    \A i \in 1..(Len(q) - 1) : q[i][1] < q[i + 1][1]}}

InitLinhas ==
    /\ SemDb /\ SemSim /\ SemHash /\ SemExt
    /\ palavras \in ListasPalavrasLinha
    /\ variaveis_llm \in ListasVariaveis
    /\ variante = ""
    /\ resultado = <<>>

SpecLinhas == InitLinhas /\ [][NextMatch]_vars

\* the smallest box that contains the words i .. i + n - 1
Uniao(i, n) ==
    LET ws == {palavras[i + t] : t \in 0..(n - 1)}
    IN  [x0     |-> CHOOSE v \in {w.x0 : w \in ws} : \A w \in ws : v <= w.x0,
         top    |-> CHOOSE v \in {w.top : w \in ws} : \A w \in ws : v <= w.top,
         x1     |-> CHOOSE v \in {w.x1 : w \in ws} : \A w \in ws : v >= w.x1,
         bottom |-> CHOOSE v \in {w.bottom : w \in ws} : \A w \in ws : v >= w.bottom]

\* C23 - box of a resolved field: a candidate whose tokens occur at the
\* consecutive words i..i+k gets the FieldMapping whose box is the union of
\* the boxes of these words: left and top of the box are the smallest left
\* and top, right and bottom the largest right and bottom of the words.
C23_BoxIsUnion ==
    Mapeou =>
        \A k \in 1..Len(variaveis_llm) :
            (Tokens(k) # <<>> /\ Ocorrencias(k) # {}) =>
                \A j \in 1..Len(Resolvidos(k)) :
                    LET m == Resolvidos(k)[j]
                        u == Uniao(Primeira(k), Len(Tokens(k)))
                    IN  /\ m.x0 = u.x0 /\ m.top = u.top
                        /\ m.x1 = u.x1 /\ m.bottom = u.bottom

(***************************************************************************)
(* normalizar_texto_para_embedding on texts with compound patterns         *)
(***************************************************************************)
\* one text of each category: currency amounts, dates, CPF, CNPJ, phone
\* numbers, and a plain run of digits
Nucleos ==
    [VALOR    |-> {<<"R", "$", " ", "1", ".", "5", "0", "0", ",", "0", "0">>,
                   <<"R", "$", "1", "5">>},
     DATA     |-> {<<"1", "5", "/", "0", "3", "/", "1", "9", "9", "0">>,
                   <<"0", "1", "-", "1", "2", "-", "2", "4">>},
     CPF      |-> {<<"1", "2", "3", ".", "4", "5", "6", ".", "7", "8", "9", "-", "0", "9">>,
                   <<"1", "2", "3", "4", "5", "6", "7", "8", "9", "0", "9">>},
     CNPJ     |-> {<<"1", "2", ".", "3", "4", "5", ".", "6", "7", "8", "/",
                     "0", "0", "0", "1", "-", "9", "0">>},
     TELEFONE |-> {<<"(", "1", "1", ")", " ", "9", "1", "2", "3", "4", "-",
                     "5", "6", "7", "8">>},
     NUM      |-> {<<"4", "2">>}]
Categorias == DOMAIN Nucleos

\* the text around the pattern
Prefixos == {<<>>, <<"T", "o", "t", "a", "l", " ">>, <<"a", ":", " ">>, <<"\n">>,
             <<"X", " ", " ">>}
Sufixos  == {<<>>, <<" ", "f", "i", "m">>, <<"\n">>, <<" ", ";">>}

TextosChave ==
    {p \o n \o f : p \in Prefixos, n \in UNION {Nucleos[c] : c \in Categorias}, f \in Sufixos}

\* normalizar_texto_para_embedding(texto), called once on the text
normaliza ==
    /\ chave.retorno = NoneV
    /\ chave' = [chave EXCEPT !.retorno = [k |-> "str",
                                           v |-> normalizar_texto_para_embedding(chave.texto)]]
    /\ UNCHANGED <<dbVars, simVars, chamada, matchVars, hashVars,
                   memoria, sessao, overlay, conc, arquivo>>

InitChave ==
    /\ InitDb /\ SemSim /\ SemMatch /\ SemHash /\ SemMemoria /\ SemSessao /\ SemOverlay
    /\ SemConc /\ SemArquivo
    /\ \E t \in TextosChave : chave = [texto |-> t, retorno |-> NoneV]

NextChave == normaliza

SpecChave == InitChave /\ [][NextChave]_vars

\* sub occurs in s
Contem(s, sub) ==
    \E i \in 1..(Len(s) - Len(sub) + 1) : SubSeq(s, i, i + Len(sub) - 1) = sub

\* the placeholder of a category, as it stands in the lower-cased key
Marcador(c) ==
    CASE c = "VALOR"    -> <<"v", "a", "l", "o", "r">>
      [] c = "DATA"     -> <<"d", "a", "t", "a">>
      [] c = "CPF"      -> <<"c", "p", "f">>
      [] c = "CNPJ"     -> <<"c", "n", "p", "j">>
      [] c = "TELEFONE" -> <<"t", "e", "l", "e", "f", "o", "n", "e">>
      [] c = "NUM"      -> <<"n", "u", "m">>

\* the category of the pattern in the text
CategoriaDe(texto) ==
    CHOOSE c \in Categorias :
        \E p \in Prefixos, n \in Nucleos[c], f \in Sufixos : texto = p \o n \o f

\* C24 - order-sensitive similarity key: a currency amount, a date, a
\* national-ID number or a phone number in the text is replaced by the
\* placeholder of its own category, and its digits are not turned into the
\* placeholder of plain digit runs.
C24_CompoundPlaceholders ==
    (chave.retorno # NoneV /\ CategoriaDe(chave.texto) # "NUM") =>
        /\ Contem(chave.retorno.v, Marcador(CategoriaDe(chave.texto)))
        /\ ~Contem(chave.retorno.v, Marcador("NUM"))

(***************************************************************************)
(* The matcher on lists of several candidates                              *)
(***************************************************************************)
MaxCandidatos    == 3
MaxPalavrasOrdem == 2

\* candidates that are found exactly, found by the partial search only, not
\* found at all, skipped for an empty value, and one without tipo and
\* descricao (the defaults of variavel.get apply); two share their tipo
Candidatos ==
    {Variavel(1, <<"a">>), Variavel(2, <<"b">>), Variavel(1, <<"a", " ", "b">>),
     Variavel(2, <<"c">>), Variavel(3, <<>>), [valor_original |-> <<"a">>]}

ListasCandidatos == SeqsUpTo(Candidatos, MaxCandidatos)

ListasPalavrasOrdem ==
    {[i \in 1..Len(ts) |-> Palavra(i, ts[i])] : ts \in SeqsUpTo(TextosPalavra, MaxPalavrasOrdem)}

InitOrdem ==
    /\ SemDb /\ SemSim /\ SemHash /\ SemExt
    /\ palavras \in ListasPalavrasOrdem
    /\ variaveis_llm \in ListasCandidatos
    /\ variante = ""
    /\ resultado = <<>>

SpecOrdem == InitOrdem /\ [][NextMatch]_vars

\* the FieldMapping m carries tipo, descricao and valor_original of candidate v
Carrega(m, v) ==
    /\ m.tipo = Get(v, "tipo", "CAMPO_DESCONHECIDO")
    /\ m.descricao = Get(v, "descricao", Get(v, "tipo", "CAMPO_DESCONHECIDO"))
    /\ m.texto_original = Get(v, "valor_original", <<>>)

\* C25 - shape of the matcher's output: the mappings stand in candidate
\* order, at most one per candidate, each with the tipo, descricao and
\* valor_original of its candidate; the result is not longer than the
\* candidate list and is empty for an empty candidate list.
C25_OutputShape ==
    Mapeou =>
        /\ Len(resultado) <= Len(variaveis_llm)
        /\ (variaveis_llm = <<>>) => (resultado = <<>>)
        /\ \E f \in [1..Len(resultado) -> 1..Len(variaveis_llm)] :
              /\ \A i, j \in 1..Len(resultado) : i < j => f[i] < f[j]
              /\ \A j \in 1..Len(resultado) : Carrega(resultado[j], variaveis_llm[f[j]])

\* three candidates of which the second was not found: two mappings, for the
\* first and the third candidate
C25_Witness ==
    /\ Mapeou
    /\ Len(variaveis_llm) = 3 /\ Len(resultado) = 2
    /\ variaveis_llm[2] = Variavel(2, <<"c">>)
    /\ Carrega(resultado[1], variaveis_llm[1])
    /\ Carrega(resultado[2], variaveis_llm[3])
    /\ resultado[1].tipo # resultado[2].tipo

(***************************************************************************)
(* The session of the web orchestrator across analysis runs                *)
(***************************************************************************)
\* Etapa 3 and Etapa 4 are shown, so the overlay can be asked for
OverlayDisponivel == Verdadeiro(sessao.estado.mapeamentos)

\* C26 - session-state consistency: after an analysis run of app.py that
\* ended without exception, the mappings the overlay step would use were
\* assigned for the document whose fingerprint, working PDF and page size
\* are in the session, also when the run proposed no candidate fields.
C26_SessionConsistency ==
    (sessao.variante = "app" /\ ~sessao.excecao /\ OverlayDisponivel) =>
        /\ sessao.estado.doc_hash = sessao.hash
        /\ sessao.estado.arquivo_pdf = sessao.hash
        /\ sessao.estado.page_size = sessao.hash
        /\ sessao.estado.mapeamentos_doc = sessao.hash

(***************************************************************************)
(* Saves and deletes of the template store                                 *)
(***************************************************************************)
ListasApaga == {<<DictA>>, <<DictB>>, <<DictA, DictB>>}

NextApaga ==
    \/ \E h \in Hashes, m \in ListasApaga : salvar_template(h, m, Null, Null)
    \/ \E h \in Hashes : deletar_template(h)

SpecApaga == Init /\ [][NextApaga]_vars

\* rows of mapeamentos whose template was deleted
Orfas == {i \in 1..Len(mapeamentos) : \A t \in templates : t.id # mapeamentos[i].template_id}

\* a step of salvar_template: afterwards carregar_template returns the saved
\* list for the saved fingerprint and what it returned before for the others
PassoSalvar ==
    (chamada'.op = "salvar_template") =>
        \A h \in Hashes :
            RetCarregar(h)' = IF h = chamada'.hash THEN ListaV(chamada'.maps)
                              ELSE RetCarregar(h)

\* C27 - no resurrection after delete: whatever saves and deletes came
\* before, after salvar_template(fp, M2) carregar_template(fp) returns
\* exactly M2 and every other fingerprint loads what it loaded before; rows
\* left behind by a deleted template are never returned.
C27_NoResurrection == [][PassoSalvar]_vars

\* a fingerprint was saved, deleted and saved again: the rows of the first
\* save are still in the table and the load returns the second list only
C27_Witness ==
    /\ Salvou /\ ~chamada.existia
    /\ \E i \in Orfas : mapeamentos[i].tipo \notin {m.tipo : m \in {chamada.maps[j] : j \in 1..Len(chamada.maps)}}
    /\ RetCarregar(chamada.hash) = ListaV(chamada.maps)
    /\ Cardinality(templates) = 1

(***************************************************************************)
(* salvar_template that fails part-way                                     *)
(***************************************************************************)
\* a mapping whose "tipo" is None: d.get("tipo", "") returns None and the
\* INSERT violates mapeamentos.tipo TEXT NOT NULL
DictRuim == [tipo |-> Null, descricao |-> "Nome", texto_original |-> "Joao",
             x0 |-> 10, top |-> 20, x1 |-> 50, bottom |-> 30]
ListasRuins == {<<DictRuim>>, <<DictA, DictRuim>>, <<DictRuim, DictB>>}

\* NOT NULL constraint failed: mapeamentos.tipo
Rejeita(d) == Get(d, "tipo", "") = Null

\* the first mapping the store rejects, 0 when it accepts all
PrimeiraRejeitada(maps) ==
    IF \E i \in 1..Len(maps) : Rejeita(maps[i])
    THEN CHOOSE i \in 1..Len(maps) : Rejeita(maps[i]) /\ \A j \in 1..(i - 1) : ~Rejeita(maps[j])
    ELSE 0

\* the database inside the transaction when the k-th INSERT INTO mapeamentos
\* is rejected: the UPDATE or INSERT of the template, the DELETE of the old
\* rows and the first k - 1 INSERTs have run
EstadoParcial(doc_hash, maps, nome, descricao, k) ==
    LET resultado_  == SelectTemplate(doc_hash)
        existe      == resultado_ # {}
        antigo      == CHOOSE t \in resultado_ : TRUE
        template_id == IdTemplate(doc_hash)
        aceitas     == SubSeq(maps, 1, k - 1)
    IN  [templates |->
             IF existe
             THEN (templates \ {antigo}) \cup
                  {[antigo EXCEPT !.nome = Coalesce(nome, antigo.nome),
                                  !.descricao = Coalesce(descricao, antigo.descricao),
                                  !.num_campos = Len(maps)]}
             ELSE templates \cup
                  {[id |-> template_id, hash |-> doc_hash, nome |-> nome,
                    descricao |-> descricao, num_campos |-> Len(maps)]},
         mapeamentos |->
             (IF existe THEN DeleteMapeamentos(template_id) ELSE mapeamentos)
             \o InsereMapeamentos(template_id, aceitas),
         seq |-> [templates |-> IF existe THEN seq.templates ELSE template_id,
                  mapeamentos |-> seq.mapeamentos + Len(aceitas)]]

\* mutant: the except branch does not undo the statements of the transaction
Rollback_Nada(antes, parcial) == parcial

\* except Exception: conn.rollback()
Rollback(antes, parcial) == antes

\* salvar_template(doc_hash, mapeamentos, nome, descricao) with a mapping the
\* store rejects: the exception is raised again after the rollback
salvar_template_rejeitado(doc_hash, maps, nome, descricao) ==
    LET k      == PrimeiraRejeitada(maps)
        antes  == [templates |-> templates, mapeamentos |-> mapeamentos, seq |-> seq]
        depois == Rollback(antes, EstadoParcial(doc_hash, maps, nome, descricao, k))
    IN  /\ k # 0
        /\ RetExiste(doc_hash) \/ seq.templates < MaxTemplateId
        /\ seq.mapeamentos + Len(maps) <= MaxMapeamentoId
        /\ tabelas' = TRUE
        /\ templates' = depois.templates
        /\ mapeamentos' = depois.mapeamentos
        /\ seq' = depois.seq
        /\ chamada' = [op |-> "salvar_template", hash |-> doc_hash, maps |-> maps,
                       nome |-> nome, descricao |-> descricao,
                       existia |-> RetExiste(doc_hash), antes |-> RetCarregar(doc_hash),
                       linha |-> IF RetExiste(doc_hash)
                                 THEN CHOOSE t \in SelectTemplate(doc_hash) : TRUE
                                 ELSE NoneV,
                       retorno |-> Raise("IntegrityError")]
        /\ UNCHANGED <<simVars, matchVars, hashVars, extVars>>

NextAtomico ==
    \/ \E h \in Hashes, m \in ListasApaga : salvar_template(h, m, Null, Null)
    \/ \E h \in Hashes, m \in ListasRuins, md \in Metadados :
          salvar_template_rejeitado(h, m, md.nome, md.descricao)
    \/ \E h \in Hashes : deletar_template(h)

SpecAtomico == Init /\ [][NextAtomico]_vars

\* a step of salvar_template that raises: what the queries return is what
\* they returned before the call
PassoAtomico ==
    (chamada'.op = "salvar_template" /\ chamada'.retorno.k = "raise") =>
        /\ \A h \in Hashes : RetCarregar(h)' = RetCarregar(h)
        /\ \A h \in Hashes : RetExiste(h)' = RetExiste(h)
        /\ RetContar' = RetContar
        /\ [h \in Hashes |-> SelectTemplate(h)]' = [h \in Hashes |-> SelectTemplate(h)]

\* C28 - atomic save: a salvar_template that raises part-way leaves the
\* store as it was: carregar_template, template_existe and contar_templates
\* return what they returned before, and neither a partial mapping list nor
\* an emptied or changed template row is visible.
C28_AtomicSave == [][PassoAtomico]_vars

\* the save of a stored fingerprint failed at its second mapping, after the
\* old rows were deleted and one new row was inserted, and the old list is
\* still what the load returns
C28_Witness ==
    /\ Salvou /\ chamada.retorno = Raise("IntegrityError")
    /\ chamada.existia /\ chamada.antes.k = "lista" /\ chamada.antes.v # <<>>
    /\ PrimeiraRejeitada(chamada.maps) = 2
    /\ chamada.antes.v[1] # chamada.maps[1]
    /\ RetCarregar(chamada.hash) = chamada.antes

(***************************************************************************)
(* Promotion of similarity hits                                            *)
(***************************************************************************)
\* the last run of app.py took the mappings of a similar template and ended
\* without exception
Promoveu == sessao.variante = "app" /\ sessao.similar.k = "tupla" /\ ~sessao.excecao

\* the run that follows a promotion, for the same document and without
\* exception: an exact hit with the same mappings, no similarity search and
\* no proposer
PassoPromovido ==
    (Promoveu /\ sessao'.hash = sessao.hash /\ ~sessao'.excecao) =>
        /\ Verdadeiro(sessao'.carregado)
        /\ sessao'.retorno = sessao.retorno
        /\ sessao'.similar = Pulado
        /\ ~sessao'.chamou_llm

\* C29 - similarity hits are promoted to exact hits: a run of app.py whose
\* exact lookup missed and whose similarity search returned a template has
\* stored the returned mappings under the document's fingerprint, and the
\* next run for the same document is an exact hit with the same mappings
\* that calls neither buscar_template_similar nor the proposer.
C29_Promotion ==
    /\ [](Promoveu => sessao.depois[sessao.hash] = ListaV(sessao.similar.v.mapeamentos))
    /\ [][PassoPromovido]_vars

(***************************************************************************)
(* The relational store and the vector index together                      *)
(***************************************************************************)
TextosDois == {<<"N", "F", " ", "1", "2">>}

NextDois ==
    \/ \E h \in Hashes, m \in ListasSim : salvar_template(h, m, Null, Null)
    \/ \E h \in Hashes : deletar_template(h)
    \/ \E h \in Hashes, t \in TextosDois :
          \E tpl \in SelectTemplate(h) : salvar_embedding(h, t, tpl.id, "nenhuma")
    \/ \E t \in TextosDois, f \in Falhas, v \in colecao \cup {NoneV}, d \in Distancias :
          buscar_template_similar(t, NoneV, f, v, d)

SpecDois == InitSim /\ [][NextDois]_vars

\* C30 - consistency between the two stores: a match returned by
\* buscar_template_similar names a fingerprint that has a template in SQLite
\* and carries exactly the mappings carregar_template returns for it; when
\* the nearest neighbour is a fingerprint whose template was deleted (its
\* embedding is still in the collection), the lookup returns None.
C30_StoresConsistent ==
    Buscou =>
        /\ (chamada.retorno.k = "tupla") =>
              /\ RetExiste(chamada.retorno.v.hash)
              /\ chamada.retorno.v.hash = chamada.vizinho.hash
              /\ ListaV(chamada.retorno.v.mapeamentos) = RetCarregar(chamada.retorno.v.hash)
        /\ (chamada.consultou /\ ~RetExiste(chamada.vizinho.hash)) =>
              chamada.retorno = NoneV

\* the nearest neighbour, at distance 0, is the embedding of a fingerprint
\* whose template was deleted while another template is stored: None
C30_Witness ==
    /\ Buscou /\ chamada.consultou
    /\ chamada.distancia = [num |-> 0, den |-> 1]
    /\ chamada.vizinho \in colecao
    /\ ~RetExiste(chamada.vizinho.hash)
    /\ templates # {}
    /\ chamada.retorno = NoneV

====
